---------------------------- MODULE Spec2Model ----------------------------
(***************************************************************************)
(* A model of gob-rs: the bit codec (src/src/encode.rs), the stream        *)
(* decoder (src/src/decode.rs), the dynamic value (src/src/value.rs) and   *)
(* the schema-emitting writer (src/src/writer.rs).                         *)
(*                                                                         *)
(* Representation.  A byte is a number in 0..255.  A u64 or an i64 is the  *)
(* tuple of its 8 bytes, most significant first (an i64 in two's           *)
(* complement), so that every bit operation of the source keeps its 64-bit *)
(* width.  A byte string (Vec<u8>, String, the wire) is a sequence of      *)
(* bytes.  Lengths, counts and type identifiers that the source keeps in   *)
(* usize / i64 variables are numbers, converted by AsUsize / AsI64.        *)
(***************************************************************************)
EXTENDS Integers, Sequences, FiniteSets, TLC

VARIABLES
    out,                    \* GobWriter.encoder.writer: the bytes written so far
    type_ids,               \* GobWriter.type_ids: schema key -> id
    next_id,                \* GobWriter.next_id
    reader,                 \* Decoder.reader: the bytes not yet read from the source
    types,                  \* Decoder.types: id -> TypeSchema
    stash,                  \* Decoder.stash
    current_msg_remaining,  \* Decoder.current_msg_remaining
    pc,                     \* which calls the environment may make next
    sent,                   \* history: the values handed to GobWriter::encode
    log,                    \* history: the frames the writer wrote, with the ids they use
    calls                   \* history: one record per decoder call made so far

vars == <<out, type_ids, next_id, reader, types, stash, current_msg_remaining,
          pc, sent, log, calls>>

(***************************************************************************)
(* Bounds of the model.                                                    *)
(***************************************************************************)
\* A length or count read from the wire is kept exactly below this value and
\* saturates at it (no stream of the model holds that many bytes).
MaxUsize == 16777216
\* The most calls of GobWriter::encode on one writer.
MaxEncodes == 2
\* The most bytes of a source of arbitrary bytes.
MaxWire == 4

Min(a, b) == IF a < b THEN a ELSE b

\* `let x = v; e` is written CHOOSE res \in {e : x \in {v}} : TRUE throughout:
\* it is e for x the value of v, which is computed once.

(***************************************************************************)
(* 64-bit words as 8 bytes, big-endian.                                    *)
(***************************************************************************)
Zero64 == <<0, 0, 0, 0, 0, 0, 0, 0>>

\* v as u64, for a number below 2^24
U64(n) == <<0, 0, 0, 0, 0, n \div 65536, (n \div 256) % 256, n % 256>>

\* u as usize
AsUsize(u) ==
    IF u[1] = 0 /\ u[2] = 0 /\ u[3] = 0 /\ u[4] = 0 /\ u[5] = 0
    THEN (u[6] * 65536) + (u[7] * 256) + u[8]
    ELSE MaxUsize

\* !v
Not64(v) == [i \in 1..8 |-> 255 - v[i]]

\* v << 1
Shl1(v) == [i \in 1..8 |-> ((2 * v[i]) % 256) + (IF i < 8 THEN v[i + 1] \div 128 ELSE 0)]

\* v >> 1 (logical)
Shr1(v) == [i \in 1..8 |-> (v[i] \div 2) + (IF i > 1 THEN (v[i - 1] % 2) * 128 ELSE 0)]

\* v >> 8
Shr8(v) == <<0>> \o SubSeq(v, 1, 7)

\* v | 1
Or1(v) == [v EXCEPT ![8] = @ + (1 - (@ % 2))]

\* v.swap_bytes()
SwapBytes(v) == [i \in 1..8 |-> v[9 - i]]

\* v < 0, for v: i64
IsNeg(v) == v[1] >= 128

\* the i64 of a number of small magnitude
I64(n) == IF n >= 0 THEN U64(n) ELSE Not64(U64(-n - 1))

\* v: i64 as a number (saturating like AsUsize)
AsI64(v) == IF IsNeg(v) THEN -AsUsize(Not64(v)) - 1 ELSE AsUsize(v)

\* byteorder's BigEndian::read_uint(buf, nbytes) for 1 <= nbytes <= 8
BigEndianReadUint(buf) == [i \in 1..(8 - Len(buf)) |-> 0] \o buf

(***************************************************************************)
(* Encoder (src/src/encode.rs).  Each write_* is the byte string it        *)
(* appends to the encoder's sink.                                          *)
(***************************************************************************)
RECURSIVE ByteCount(_)
\* the loop `while temp > 0 { n += 1; temp >>= 8; }`
ByteCount(temp) == IF temp = Zero64 THEN 0 ELSE 1 + ByteCount(Shr8(temp))

\* a write_uint that writes all 8 bytes of a value of 128 or more
write_uint_wide(v) ==
    IF SubSeq(v, 1, 7) = <<0, 0, 0, 0, 0, 0, 0>> /\ v[8] < 128 THEN <<v[8]>> ELSE <<248>> \o v

write_uint(v) ==
    IF SubSeq(v, 1, 7) = <<0, 0, 0, 0, 0, 0, 0>> /\ v[8] < 128
    THEN <<v[8]>>
    ELSE (CHOOSE res \in { <<255 - (n - 1)>> \o SubSeq(v, 9 - n, 8) : n \in {ByteCount(v)} } : TRUE)

\* a write_int that does not set the lowest bit for a negative number
write_int_unmarked(v) ==
    (CHOOSE res \in { write_uint(u)
          : u \in {IF IsNeg(v) THEN Shl1(Not64(v)) ELSE Shl1(v)} } : TRUE)

write_int(v) ==
    (CHOOSE res \in { write_uint(u) : u \in {IF IsNeg(v) THEN Or1(Shl1(Not64(v))) ELSE Shl1(v)} } : TRUE)

write_float(bits) == (CHOOSE res \in { write_uint(swapped) : swapped \in {SwapBytes(bits)} } : TRUE)

write_bool(b) == IF b THEN write_uint(U64(1)) ELSE write_uint(U64(0))

write_bytes(b) == write_uint(U64(Len(b))) \o b

write_string(s) == write_bytes(s)


(***************************************************************************)
(* Results.  Every fallible operation of the source returns                *)
(* Result<T, io::Error>; here it is a record [err, val, d], where err is   *)
(* "" for Ok(val) and names the error otherwise, and d is the decoder (or  *)
(* writer) as the operation leaves it.  A panic is the error "Panic".      *)
(***************************************************************************)
Ok(v, d) == [err |-> "", val |-> v, d |-> d]
Err(e, d) == [err |-> e, val |-> <<>>, d |-> d]
IsOk(r) == r.err = ""

UnexpectedEof == "UnexpectedEof"
Panic == "Panic"
InvalidBool == "InvalidData: integer overflow"
InvalidUtf8 == "InvalidData: invalid utf-8"
UnknownTypeId == "InvalidData: Unknown type ID"
UnknownFieldType == "InvalidData: Unknown type for struct field"
UnknownFieldIndex == "InvalidData: Unknown field index for Struct"
UnknownInterfaceType == "InvalidData: Unknown concrete type definition for interface"
\* the errors of io::ErrorKind::InvalidData
InvalidData == {InvalidBool, InvalidUtf8, UnknownTypeId, UnknownFieldType,
                UnknownFieldIndex, UnknownInterfaceType}
NotImpl == "Other: not impl"
UnknownWireTypeField == "Other: Unknown WireType field"
Unimplemented == "Other: Unimplemented decoder"

(***************************************************************************)
(* Dynamic values (src/src/value.rs).  A value is a record with tag t:     *)
(*   Nil | Bool v | Int v (i64) | Uint v (u64) | Float v (the bit pattern) *)
(*   | String v | Bytes v | Array v | Map v | Struct n v                   *)
(* A BTreeMap is the sequence of its <<key, value>> pairs in key order.    *)
(***************************************************************************)
VNil == [t |-> "Nil"]
VBool(b) == [t |-> "Bool", v |-> b]
VInt(i) == [t |-> "Int", v |-> i]
VUint(u) == [t |-> "Uint", v |-> u]
VFloat(bits) == [t |-> "Float", v |-> bits]
VString(s) == [t |-> "String", v |-> s]
VBytes(b) == [t |-> "Bytes", v |-> b]
VArray(a) == [t |-> "Array", v |-> a]
VMap(m) == [t |-> "Map", v |-> m]
VStruct(name, fields) == [t |-> "Struct", n |-> name, v |-> fields]

\* an ordering that is never Less
OrderingNeverLess(x) == IF x = 0 THEN 0 ELSE 1

Ordering(x) == IF x < 0 THEN -1 ELSE IF x > 0 THEN 1 ELSE 0

RECURSIVE CmpBytes(_, _)
\* Ord for [u8] / str / Vec<u8>: lexicographic
CmpBytes(a, b) ==
    IF a = <<>> /\ b = <<>> THEN 0
    ELSE IF a = <<>> THEN -1
    ELSE IF b = <<>> THEN 1
    ELSE IF a[1] # b[1] THEN Ordering(a[1] - b[1])
    ELSE CmpBytes(Tail(a), Tail(b))

\* Ord for i64
CmpI64(a, b) == CmpBytes([a EXCEPT ![1] = (a[1] + 128) % 256], [b EXCEPT ![1] = (b[1] + 128) % 256])

RECURSIVE cmp(_, _), CmpValues(_, _), CmpPairs(_, _), CmpFields(_, _)
\* Ord for Vec<Value>
CmpValues(a, b) ==
    IF a = <<>> /\ b = <<>> THEN 0
    ELSE IF a = <<>> THEN -1
    ELSE IF b = <<>> THEN 1
    ELSE (CHOOSE res \in { IF c # 0 THEN c ELSE CmpValues(Tail(a), Tail(b)) : c \in {cmp(a[1], b[1])} } : TRUE)

\* Ord for BTreeMap<Value, Value>
CmpPairs(a, b) ==
    IF a = <<>> /\ b = <<>> THEN 0
    ELSE IF a = <<>> THEN -1
    ELSE IF b = <<>> THEN 1
    ELSE (CHOOSE res \in { IF c[1] # 0 THEN c[1] ELSE IF c[2] # 0 THEN c[2] ELSE CmpPairs(Tail(a), Tail(b))
               : c \in {<<cmp(a[1][1], b[1][1]), cmp(a[1][2], b[1][2])>>} } : TRUE)

\* Ord for BTreeMap<String, Value>
CmpFields(a, b) ==
    IF a = <<>> /\ b = <<>> THEN 0
    ELSE IF a = <<>> THEN -1
    ELSE IF b = <<>> THEN 1
    ELSE (CHOOSE res \in { IF c[1] # 0 THEN c[1] ELSE IF c[2] # 0 THEN c[2] ELSE CmpFields(Tail(a), Tail(b))
               : c \in {<<CmpBytes(a[1][1], b[1][1]), cmp(a[1][2], b[1][2])>>} } : TRUE)

\* impl Ord for Value
cmp(a, b) ==
    IF a.t = "Nil" /\ b.t = "Nil" THEN 0
    ELSE IF a.t = "Nil" THEN -1
    ELSE IF b.t = "Nil" THEN 1
    ELSE IF a.t = "Bool" /\ b.t = "Bool"
         THEN (IF a.v = b.v THEN 0 ELSE IF b.v THEN -1 ELSE 1)
    ELSE IF a.t = "Bool" THEN -1
    ELSE IF b.t = "Bool" THEN 1
    ELSE IF a.t = "Int" /\ b.t = "Int" THEN CmpI64(a.v, b.v)
    ELSE IF a.t = "Int" THEN -1
    ELSE IF b.t = "Int" THEN 1
    ELSE IF a.t = "Uint" /\ b.t = "Uint" THEN CmpBytes(a.v, b.v)
    ELSE IF a.t = "Uint" THEN -1
    ELSE IF b.t = "Uint" THEN 1
    ELSE IF a.t = "Float" /\ b.t = "Float" THEN CmpBytes(a.v, b.v)
    ELSE IF a.t = "Float" THEN -1
    ELSE IF b.t = "Float" THEN 1
    ELSE IF a.t = "String" /\ b.t = "String" THEN CmpBytes(a.v, b.v)
    ELSE IF a.t = "String" THEN -1
    ELSE IF b.t = "String" THEN 1
    ELSE IF a.t = "Bytes" /\ b.t = "Bytes" THEN CmpBytes(a.v, b.v)
    ELSE IF a.t = "Bytes" THEN -1
    ELSE IF b.t = "Bytes" THEN 1
    ELSE IF a.t = "Array" /\ b.t = "Array" THEN CmpValues(a.v, b.v)
    ELSE IF a.t = "Array" THEN -1
    ELSE IF b.t = "Array" THEN 1
    ELSE IF a.t = "Map" /\ b.t = "Map" THEN CmpPairs(a.v, b.v)
    ELSE IF a.t = "Map" THEN -1
    ELSE IF b.t = "Map" THEN 1
    ELSE (CHOOSE res \in { IF c # 0 THEN c ELSE CmpFields(a.v, b.v) : c \in {CmpBytes(a.n, b.n)} } : TRUE)

RECURSIVE MapInsert(_, _, _)
\* BTreeMap<Value, Value>::insert: the pair goes to its place in key order;
\* an equal key keeps the old key and takes the new value
MapInsert(m, k, v) ==
    IF m = <<>> THEN <<(<<k, v>>)>>
    ELSE (CHOOSE res \in { IF c < 0 THEN <<(<<k, v>>)>> \o m
               ELSE IF c = 0 THEN <<(<<m[1][1], v>>)>> \o Tail(m)
               ELSE <<m[1]>> \o MapInsert(Tail(m), k, v)
               : c \in {cmp(k, m[1][1])} } : TRUE)

RECURSIVE FieldInsert(_, _, _)
\* BTreeMap<String, Value>::insert
FieldInsert(m, k, v) ==
    IF m = <<>> THEN <<(<<k, v>>)>>
    ELSE (CHOOSE res \in { IF c < 0 THEN <<(<<k, v>>)>> \o m
               ELSE IF c = 0 THEN <<(<<m[1][1], v>>)>> \o Tail(m)
               ELSE <<m[1]>> \o FieldInsert(Tail(m), k, v)
               : c \in {CmpBytes(k, m[1][1])} } : TRUE)


(***************************************************************************)
(* Text constants of the source, as UTF-8 bytes.                           *)
(***************************************************************************)
str_string == <<115, 116, 114, 105, 110, 103>>              \* "string"
str_int == <<105, 110, 116>>                                \* "int"
str_int64 == <<105, 110, 116, 54, 52>>                      \* "int64"
str_uint == <<117, 105, 110, 116>>                          \* "uint"
str_bool == <<98, 111, 111, 108>>                           \* "bool"
str_float64 == <<102, 108, 111, 97, 116, 54, 52>>           \* "float64"
str_bytes == <<91, 93, 98, 121, 116, 101>>                  \* "[]byte"
str_Struct == <<83, 116, 114, 117, 99, 116>>                \* "Struct"
str_unknown == <<117, 110, 107, 110, 111, 119, 110>>        \* "unknown"
str_map == <<109, 97, 112, 91, 105, 110, 116, 101, 114, 102, 97, 99, 101, 123, 125, 93,
             105, 110, 116, 101, 114, 102, 97, 99, 101, 123, 125>>   \* "map[interface{}]interface{}"
str_Map88 == <<77, 97, 112, 40, 56, 44, 56, 41>>            \* "Map(8,8)"

(***************************************************************************)
(* TypeSchema (src/src/decode.rs).                                         *)
(***************************************************************************)
SBool == [k |-> "Bool"]
SInt == [k |-> "Int"]
SUint == [k |-> "Uint"]
SFloat == [k |-> "Float"]
SByteSlice == [k |-> "ByteSlice"]
SString == [k |-> "String"]
SInterface == [k |-> "Interface"]
SMap(key_id, elem_id) == [k |-> "Map", key |-> key_id, elem |-> elem_id]
SStruct(fields) == [k |-> "Struct", fields |-> fields]   \* fields: <<0, type id, name>>
SCustom(id) == [k |-> "Custom", id |-> id]

\* HashMap::insert
Insert(m, key, value) == [i \in DOMAIN m \cup {key} |-> IF i = key THEN value ELSE m[i]]

(***************************************************************************)
(* Decoder (src/src/decode.rs).  A decoder d is the record of its fields   *)
(* reader, types, stash, current_msg_remaining, and of two history fields: *)
(* refilled (read_exact_internal went on to a next message header during   *)
(* the current call) and drained (the bytes the current call's last drain  *)
(* discarded).                                                             *)
(***************************************************************************)
\* Decoder::new
NewTypes == (1 :> SBool) @@ (2 :> SInt) @@ (3 :> SUint) @@ (4 :> SFloat)
            @@ (5 :> SByteSlice) @@ (6 :> SString) @@ (8 :> SInterface)

\* Read::read_exact on the source: all of the n bytes, or UnexpectedEof (the
\* source is then left at its end)
read_raw_exact(d, n) ==
    IF Len(d.reader) < n
    THEN Err(UnexpectedEof, [d EXCEPT !.reader = <<>>])
    ELSE Ok(SubSeq(d.reader, 1, n),
            [d EXCEPT !.reader = SubSeq(d.reader, n + 1, Len(d.reader))])

read_raw_u8(d) ==
    (CHOOSE res \in { IF IsOk(r) THEN Ok(r.val[1], r.d) ELSE r : r \in {read_raw_exact(d, 1)} } : TRUE)

read_raw_uint(d) ==
    (CHOOSE res \in { IF ~IsOk(r) THEN r
          ELSE IF r.val < 128 THEN Ok(U64(r.val), r.d)
          ELSE (CHOOSE res \in { IF ~IsOk(b) THEN b
                     ELSE IF Len(b.val) > 8 THEN Err(Panic, b.d)  \* byteorder asserts nbytes <= 8
                     ELSE Ok(BigEndianReadUint(b.val), b.d)
                     : b \in {read_raw_exact(r.d, ((255 - r.val) + 1) % 256)} } : TRUE)
          : r \in {read_raw_u8(d)} } : TRUE)

\* a drain that forgets the bytes left in the message without reading them
DrainNothing(d) == Ok(<<>>, [d EXCEPT !.current_msg_remaining = 0, !.drained = 0])

\* `if self.current_msg_remaining > 0 { read_raw_exact(drain); self.current_msg_remaining = 0 }`
Drain(d) ==
    IF d.current_msg_remaining > 0
    THEN (CHOOSE res \in { IF ~IsOk(r) THEN r
               ELSE Ok(<<>>, [r.d EXCEPT !.current_msg_remaining = 0,
                                         !.drained = d.current_msg_remaining])
               : r \in {read_raw_exact(d, d.current_msg_remaining)} } : TRUE)
    ELSE Ok(<<>>, [d EXCEPT !.drained = 0])

\* the number of bytes of the UTF-8 sequence that the byte c leads (0: c leads none)
Utf8Width(c) ==
    IF c < 128 THEN 1
    ELSE IF c >= 194 /\ c <= 223 THEN 2
    ELSE IF c >= 224 /\ c <= 239 THEN 3
    ELSE IF c >= 240 /\ c <= 244 THEN 4
    ELSE 0

\* String::from_utf8 accepts exactly the well-formed UTF-8 byte strings: every
\* leading byte is followed by its continuation bytes (the first of them in the
\* range that excludes overlong forms, surrogates and values above U+10FFFF),
\* and every continuation byte belongs to the sequence of a leading byte
IsUtf8(s) ==
    \A i \in 1..Len(s) :
        IF s[i] >= 128 /\ s[i] <= 191
        THEN \E j \in 1..3 : /\ i - j >= 1
                             /\ Utf8Width(s[i - j]) > j
                             /\ \A m \in 1..(j - 1) : s[i - m] >= 128 /\ s[i - m] <= 191
        ELSE /\ Utf8Width(s[i]) > 0
             /\ i + Utf8Width(s[i]) - 1 <= Len(s)
             /\ \A m \in 1..(Utf8Width(s[i]) - 1) : s[i + m] >= 128 /\ s[i + m] <= 191
             /\ s[i] = 224 => s[i + 1] >= 160
             /\ s[i] = 237 => s[i + 1] <= 159
             /\ s[i] = 240 => s[i + 1] >= 144
             /\ s[i] = 244 => s[i + 1] <= 143

\* self.method(arg): the call by which the methods of Decoder that take part in
\* a recursion through several methods reach one another
RECURSIVE Decoder(_, _, _)

RECURSIVE read_exact_internal_loop(_, _, _)
\* the second loop of read_exact_internal: buf holds the bytes read so far
read_exact_internal_loop(d, buf, n) ==
    IF Len(buf) >= n THEN Ok(buf, d)
    ELSE IF d.current_msg_remaining = 0
    THEN (CHOOSE res \in { IF ~IsOk(h) THEN h ELSE read_exact_internal_loop(h.d, buf, n)
               : h \in {Decoder("process_next_message_header", d, <<>>)} } : TRUE)
    ELSE LET to_read == Min(n - Len(buf), d.current_msg_remaining)
         IN  IF to_read > 0
             THEN (CHOOSE res \in { IF ~IsOk(r) THEN r
                        ELSE read_exact_internal_loop(
                                 [r.d EXCEPT !.current_msg_remaining = @ - to_read],
                                 buf \o r.val, n)
                        : r \in {read_raw_exact(d, to_read)} } : TRUE)
             ELSE read_exact_internal_loop(d, buf, n)

\* fills a buffer of n bytes: from the stash first, then from the messages
read_exact_internal(d, n) ==
    LET k == Min(n, Len(d.stash))
    IN  read_exact_internal_loop([d EXCEPT !.stash = SubSeq(@, k + 1, Len(@))],
                                 SubSeq(d.stash, 1, k), n)

read_u8(d) ==
    (CHOOSE res \in { IF IsOk(r) THEN Ok(r.val[1], r.d) ELSE r : r \in {read_exact_internal(d, 1)} } : TRUE)

fast_get_uint_be(d, nbytes) ==
    (CHOOSE res \in { IF ~IsOk(r) THEN r
          ELSE IF nbytes > 8 THEN Err(Panic, r.d)     \* byteorder asserts nbytes <= 8
          ELSE Ok(BigEndianReadUint(r.val), r.d)
          : r \in {read_exact_internal(d, nbytes)} } : TRUE)

read_uint(d) ==
    (CHOOSE res \in { IF ~IsOk(r) THEN r
          ELSE IF r.val < 128 THEN Ok(U64(r.val), r.d)
          ELSE fast_get_uint_be(r.d, ((255 - r.val) + 1) % 256)
          : r \in {read_u8(d)} } : TRUE)

read_int(d) ==
    (CHOOSE res \in { IF ~IsOk(r) THEN r
          ELSE IF r.val[8] % 2 = 0 THEN Ok(Shr1(r.val), r.d)
          ELSE Ok(Not64(Shr1(r.val)), r.d)
          : r \in {read_uint(d)} } : TRUE)

read_float(d) ==
    (CHOOSE res \in { IF IsOk(r) THEN Ok(SwapBytes(r.val), r.d) ELSE r : r \in {read_uint(d)} } : TRUE)

read_bool(d) ==
    (CHOOSE res \in { IF ~IsOk(r) THEN r
          ELSE IF r.val = U64(0) THEN Ok(FALSE, r.d)
          ELSE IF r.val = U64(1) THEN Ok(TRUE, r.d)
          ELSE Err(InvalidBool, r.d)
          : r \in {read_uint(d)} } : TRUE)

read_bytes(d) ==
    (CHOOSE res \in { IF ~IsOk(r) THEN r ELSE read_exact_internal(r.d, AsUsize(r.val))
          : r \in {read_uint(d)} } : TRUE)

read_string(d) ==
    (CHOOSE res \in { IF ~IsOk(r) THEN r
          ELSE IF IsUtf8(r.val) THEN r ELSE Err(InvalidUtf8, r.d)
          : r \in {read_bytes(d)} } : TRUE)

RECURSIVE decode_common_type(_, _)
\* the loop reading a CommonType: ct_field is the field number so far
decode_common_type(d, ct_field) ==
    (CHOOSE res \in { IF ~IsOk(r) THEN r
          ELSE IF r.val = Zero64 THEN Ok(<<>>, r.d)
          ELSE LET f == ct_field + AsI64(r.val)
               IN  (CHOOSE res \in { IF ~IsOk(x) THEN x ELSE decode_common_type(x.d, f)
                         : x \in {IF f = 0 THEN read_string(r.d)
                                  ELSE IF f = 1 THEN read_int(r.d)
                                  ELSE Ok(<<>>, r.d)} } : TRUE)
          : r \in {read_uint(d)} } : TRUE)

RECURSIVE decode_map_type_loop(_, _, _, _)
decode_map_type_loop(d, field_num, key_id, elem_id) ==
    (CHOOSE res \in { IF ~IsOk(r) THEN r
          ELSE IF r.val = Zero64 THEN Ok(SMap(key_id, elem_id), r.d)
          ELSE LET f == field_num + AsI64(r.val)
               IN  IF f = 0
                   THEN (CHOOSE res \in { IF ~IsOk(c) THEN c
                              ELSE decode_map_type_loop(c.d, f, key_id, elem_id)
                              : c \in {decode_common_type(r.d, -1)} } : TRUE)
                   ELSE IF f = 1 \/ f = 2
                   THEN (CHOOSE res \in { IF ~IsOk(x) THEN x
                              ELSE IF f = 1
                              THEN decode_map_type_loop(x.d, f, AsI64(x.val), elem_id)
                              ELSE decode_map_type_loop(x.d, f, key_id, AsI64(x.val))
                              : x \in {read_int(r.d)} } : TRUE)
                   ELSE decode_map_type_loop(r.d, f, key_id, elem_id)
          : r \in {read_uint(d)} } : TRUE)

decode_map_type(d) == decode_map_type_loop(d, -1, 0, 0)

RECURSIVE decode_field_type(_, _, _, _)
\* the loop reading one FieldType
decode_field_type(d, ft_field, name, id) ==
    (CHOOSE res \in { IF ~IsOk(r) THEN r
          ELSE IF r.val = Zero64 THEN Ok(<<0, id, name>>, r.d)
          ELSE LET f == ft_field + AsI64(r.val)
               IN  IF f = 0
                   THEN (CHOOSE res \in { IF ~IsOk(x) THEN x ELSE decode_field_type(x.d, f, x.val, id)
                              : x \in {read_string(r.d)} } : TRUE)
                   ELSE IF f = 1
                   THEN (CHOOSE res \in { IF ~IsOk(x) THEN x
                              ELSE decode_field_type(x.d, f, name, AsI64(x.val))
                              : x \in {read_int(r.d)} } : TRUE)
                   ELSE decode_field_type(r.d, f, name, id)
          : r \in {read_uint(d)} } : TRUE)

RECURSIVE decode_field_types(_, _, _)
\* `for _ in 0..count`: count more FieldTypes are pushed to fields
decode_field_types(d, count, fields) ==
    IF count = 0 THEN Ok(fields, d)
    ELSE (CHOOSE res \in { IF ~IsOk(x) THEN x
               ELSE decode_field_types(x.d, count - 1, Append(fields, x.val))
               : x \in {decode_field_type(d, -1, <<>>, 0)} } : TRUE)

\* field 1 of a StructType: the count and the FieldTypes
decode_struct_fields(d, fields) ==
    (CHOOSE res \in { IF ~IsOk(n) THEN n ELSE decode_field_types(n.d, AsUsize(n.val), fields)
          : n \in {read_uint(d)} } : TRUE)

RECURSIVE decode_struct_type_loop(_, _, _)
decode_struct_type_loop(d, field_num, fields) ==
    (CHOOSE res \in { IF ~IsOk(r) THEN r
          ELSE IF r.val = Zero64 THEN Ok(SStruct(fields), r.d)
          ELSE LET f == field_num + AsI64(r.val)
               IN  IF f = 0
                   THEN (CHOOSE res \in { IF ~IsOk(c) THEN c
                              ELSE decode_struct_type_loop(c.d, f, fields)
                              : c \in {decode_common_type(r.d, -1)} } : TRUE)
                   ELSE IF f = 1
                   THEN (CHOOSE res \in { IF ~IsOk(x) THEN x
                              ELSE decode_struct_type_loop(x.d, f, x.val)
                              : x \in {decode_struct_fields(r.d, fields)} } : TRUE)
                   ELSE decode_struct_type_loop(r.d, f, fields)
          : r \in {read_uint(d)} } : TRUE)

decode_struct_type(d) == decode_struct_type_loop(d, -1, <<>>)

RECURSIVE decode_wire_type_loop(_, _, _)
decode_wire_type_loop(d, schema, field_num) ==
    (CHOOSE res \in { IF ~IsOk(r) THEN r
          ELSE IF r.val = Zero64 THEN Ok(schema, r.d)
          ELSE LET f == field_num + AsI64(r.val)
               IN  IF f = 0 \/ f = 1 \/ f = 4 THEN Err(NotImpl, r.d)
                   ELSE IF f = 2 \/ f = 3
                   THEN (CHOOSE res \in { IF ~IsOk(x) THEN x ELSE decode_wire_type_loop(x.d, x.val, f)
                              : x \in {IF f = 2 THEN decode_struct_type(r.d)
                                       ELSE decode_map_type(r.d)} } : TRUE)
                   ELSE Err(UnknownWireTypeField, r.d)
          : r \in {read_uint(d)} } : TRUE)

decode_wire_type(d) == decode_wire_type_loop(d, SInterface, -1)

\* the branch `if type_id < 0` (process_next_message_header, read_next, decode_into,
\* decode_interface): decode the wire type and register it under -type_id
Define(d, type_id) ==
    (CHOOSE res \in { IF ~IsOk(s) THEN s
          ELSE Ok(-type_id, [s.d EXCEPT !.types = Insert(@, -type_id, s.val)])
          : s \in {decode_wire_type(d)} } : TRUE)

\* the branch `if type_id < 0` of the loops over messages
\* (process_next_message_header, read_next, decode_into): Define, then the drain
\* of what is left of the definition's message
DefinitionMessage(d, type_id) ==
    (CHOOSE res \in { IF ~IsOk(f) THEN f ELSE Drain(f.d) : f \in {Define(d, type_id)} } : TRUE)

\* `self.current_msg_remaining = msg_len; let type_id = self.read_int()?;` and
\* the branch `if type_id < 0` of the loops over messages: the result is the
\* type id read, and a definition has been taken in if it is negative
MessageType(d, msg_len) ==
    (CHOOSE res \in { IF ~IsOk(t) THEN t
          ELSE IF IsNeg(t.val)
          THEN (CHOOSE res \in { IF ~IsOk(g) THEN g ELSE Ok(AsI64(t.val), g.d)
                     : g \in {DefinitionMessage(t.d, AsI64(t.val))} } : TRUE)
          ELSE Ok(AsI64(t.val), t.d)
          : t \in {read_int([d EXCEPT !.current_msg_remaining = AsUsize(msg_len)])} } : TRUE)

RECURSIVE process_next_message_header(_)
process_next_message_header(d) ==
    (CHOOSE res \in { IF ~IsOk(l) THEN l
          ELSE (CHOOSE res \in { IF ~IsOk(t) THEN t
                     ELSE IF t.val < 0 THEN process_next_message_header(t.d)
                     ELSE Ok(<<>>, t.d)
                     : t \in {MessageType([l.d EXCEPT !.refilled = TRUE], l.val)} } : TRUE)
          : l \in {read_raw_uint(d)} } : TRUE)

RECURSIVE decode_struct_body(_, _, _, _)
\* the loop of decode_value's Struct branch
decode_struct_body(d, fields, field_idx, struct_val) ==
    (CHOOSE res \in { IF ~IsOk(r) THEN r
          ELSE IF r.val = Zero64 THEN Ok(VStruct(str_Struct, struct_val), r.d)
          ELSE LET idx == field_idx + AsI64(r.val)
               IN  IF idx >= 0 /\ idx < Len(fields)
                   THEN IF fields[idx + 1][2] \in DOMAIN r.d.types
                        THEN (CHOOSE res \in { IF ~IsOk(x) THEN x
                                   ELSE decode_struct_body(x.d, fields, idx,
                                            FieldInsert(struct_val, fields[idx + 1][3], x.val))
                                   : x \in {Decoder("decode_value", r.d,
                                                    r.d.types[fields[idx + 1][2]])} } : TRUE)
                        ELSE Err(UnknownFieldType, r.d)
                   ELSE Err(UnknownFieldIndex, r.d)
          : r \in {read_uint(d)} } : TRUE)

RECURSIVE decode_map_body_loop(_, _, _, _, _)
\* `for _ in 0..count`: count more pairs are inserted into map
decode_map_body_loop(d, count, k_schema, v_schema, map) ==
    IF count = 0 THEN Ok(VMap(map), d)
    ELSE (CHOOSE res \in { IF ~IsOk(k) THEN k
               ELSE (CHOOSE res \in { IF ~IsOk(v) THEN v
                          ELSE decode_map_body_loop(v.d, count - 1, k_schema, v_schema,
                                                    MapInsert(map, k.val, v.val))
                          : v \in {Decoder("decode_value", k.d, v_schema)} } : TRUE)
               : k \in {Decoder("decode_value", d, k_schema)} } : TRUE)

decode_map_body(d, count, kid, vid) ==
    decode_map_body_loop(d, count,
                         IF kid \in DOMAIN d.types THEN d.types[kid] ELSE SCustom(kid),
                         IF vid \in DOMAIN d.types THEN d.types[vid] ELSE SCustom(vid),
                         <<>>)

\* `let b = self.read_u8()?; if b != 0 { self.stash.push(b); }`
Peek(d) ==
    (CHOOSE res \in { IF ~IsOk(b) THEN b
          ELSE IF b.val # 0 THEN Ok(<<>>, [b.d EXCEPT !.stash = Append(@, b.val)])
          ELSE Ok(<<>>, b.d)
          : b \in {read_u8(d)} } : TRUE)

\* the match on the name in decode_interface, after the peeked byte
decode_concrete(d, name, type_id, len) ==
    IF name = str_string
    THEN (CHOOSE res \in { IF IsOk(r) THEN Ok(VString(r.val), r.d) ELSE r : r \in {read_string(d)} } : TRUE)
    ELSE IF name = str_int \/ name = str_int64 \/ name = str_uint
    THEN (CHOOSE res \in { IF IsOk(r) THEN Ok(VInt(r.val), r.d) ELSE r : r \in {read_int(d)} } : TRUE)
    ELSE IF name = str_bool
    THEN (CHOOSE res \in { IF IsOk(r) THEN Ok(VBool(r.val), r.d) ELSE r : r \in {read_bool(d)} } : TRUE)
    ELSE IF name = str_float64
    THEN (CHOOSE res \in { IF IsOk(r) THEN Ok(VFloat(r.val), r.d) ELSE r : r \in {read_float(d)} } : TRUE)
    ELSE IF type_id \in DOMAIN d.types
    THEN IF len > 0
         THEN (CHOOSE res \in { IF ~IsOk(r) THEN r
                    ELSE IF r.val.t = "Struct" THEN Ok(VStruct(name, r.val.v), r.d)
                    ELSE r
                    : r \in {Decoder("decode_value", d, d.types[type_id])} } : TRUE)
         ELSE Ok(VNil, d)
    ELSE Err(UnknownInterfaceType, d)

\* decode_interface from the type id to the peeked byte: the result is
\* <<type_id, len>>
InterfaceType(d) ==
    (CHOOSE res \in { IF ~IsOk(t) THEN t
          ELSE (CHOOSE res \in { IF ~IsOk(f) THEN f
                     ELSE (CHOOSE res \in { IF ~IsOk(l) THEN l
                                ELSE (CHOOSE res \in { IF ~IsOk(p) THEN p
                                           ELSE Ok(<<f.val, AsUsize(l.val)>>, p.d)
                                           : p \in {Peek(l.d)} } : TRUE)
                                : l \in {read_uint(f.d)} } : TRUE)
                     : f \in {IF IsNeg(t.val) THEN Define(t.d, AsI64(t.val))
                              ELSE Ok(AsI64(t.val), t.d)} } : TRUE)
          : t \in {read_int(d)} } : TRUE)

decode_interface(d) ==
    (CHOOSE res \in { IF ~IsOk(n) THEN n
          ELSE IF n.val = <<>> THEN Ok(VNil, n.d)
          ELSE (CHOOSE res \in { IF ~IsOk(h) THEN h
                     ELSE decode_concrete(h.d, n.val, h.val[1], h.val[2])
                     : h \in {InterfaceType(n.d)} } : TRUE)
          : n \in {read_string(d)} } : TRUE)

decode_value(d, schema) ==
    CASE schema.k = "Bool" ->
            (CHOOSE res \in { IF IsOk(r) THEN Ok(VBool(r.val), r.d) ELSE r : r \in {read_bool(d)} } : TRUE)
      [] schema.k = "Int" ->
            (CHOOSE res \in { IF IsOk(r) THEN Ok(VInt(r.val), r.d) ELSE r : r \in {read_int(d)} } : TRUE)
      [] schema.k = "Uint" ->
            (CHOOSE res \in { IF IsOk(r) THEN Ok(VUint(r.val), r.d) ELSE r : r \in {read_uint(d)} } : TRUE)
      [] schema.k = "Float" ->
            (CHOOSE res \in { IF IsOk(r) THEN Ok(VFloat(r.val), r.d) ELSE r : r \in {read_float(d)} } : TRUE)
      [] schema.k = "String" ->
            (CHOOSE res \in { IF IsOk(r) THEN Ok(VString(r.val), r.d) ELSE r : r \in {read_string(d)} } : TRUE)
      [] schema.k = "ByteSlice" ->
            (CHOOSE res \in { IF IsOk(r) THEN Ok(VBytes(r.val), r.d) ELSE r : r \in {read_bytes(d)} } : TRUE)
      [] schema.k = "Map" ->
            (CHOOSE res \in { IF ~IsOk(r) THEN r
                  ELSE decode_map_body(r.d, AsUsize(r.val), schema.key, schema.elem)
                  : r \in {read_uint(d)} } : TRUE)
      [] schema.k = "Struct" -> decode_struct_body(d, schema.fields, -1, <<>>)
      [] schema.k = "Interface" -> decode_interface(d)
      [] OTHER -> Err(Unimplemented, d)

\* Option<Value>
None == <<>>
Some(v) == <<v>>

\* the branch `else` of read_next's loop: the value of a message of type type_id
ValueMessage(d, type_id) ==
    IF type_id \in DOMAIN d.types
    THEN (CHOOSE res \in { IF ~IsOk(p) THEN p
               ELSE (CHOOSE res \in { IF ~IsOk(x) THEN x
                          ELSE (CHOOSE res \in { IF ~IsOk(g) THEN g ELSE Ok(Some(x.val), g.d)
                                     : g \in {Drain(x.d)} } : TRUE)
                          : x \in {Decoder("decode_value", p.d, d.types[type_id])} } : TRUE)
               : p \in {IF type_id = 64 THEN Peek(d) ELSE Ok(<<>>, d)} } : TRUE)
    ELSE Err(UnknownTypeId, d)

RECURSIVE read_next_loop(_)
\* the loop of read_next
read_next_loop(d) ==
    (CHOOSE res \in { IF ~IsOk(l)
          THEN (IF l.err = UnexpectedEof THEN Ok(None, l.d) ELSE l)
          ELSE (CHOOSE res \in { IF ~IsOk(t) THEN t
                     ELSE IF t.val < 0 THEN read_next_loop(t.d)
                     ELSE ValueMessage(t.d, t.val)
                     : t \in {MessageType(l.d, l.val)} } : TRUE)
          : l \in {read_raw_uint(d)} } : TRUE)

\* a read_next that takes every exhausted source for the end of the stream
read_next_eof_none(d) ==
    (CHOOSE res \in { IF r.err = UnexpectedEof THEN Ok(None, r.d) ELSE r
          : r \in {(CHOOSE res \in { IF ~IsOk(g) THEN g ELSE read_next_loop(g.d)
                                     : g \in {Drain(d)} } : TRUE)} } : TRUE)

read_next(d) ==
    (CHOOSE res \in { IF ~IsOk(g) THEN g ELSE read_next_loop(g.d) : g \in {Drain(d)} } : TRUE)

(***************************************************************************)
(* The struct-delta decode that #[Gob] generates                           *)
(* (src/crates/gob-macro/lib.rs), for the record `struct Rec { x: u64 }`.  *)
(***************************************************************************)
str_Rec == <<82, 101, 99>>      \* "Rec"

UnknownFieldDelta == "Other: Unknown field delta"

\* the names of the fields of Rec; each field is a u64
RecFields == <<(<<120>>)>>

RECURSIVE decode_struct(_, _, _)
\* the loop of the generated decode_struct; the arm of the field of index
\* i (from 0) is `i + 1 =>`
decode_struct(d, field_num, result) ==
    (CHOOSE res \in { IF ~IsOk(r) THEN r
          ELSE IF r.val = Zero64 THEN Ok(VStruct(str_Rec, result), r.d)
          ELSE LET num == field_num + AsI64(r.val)
               IN  IF num \in 1..Len(RecFields)
                   THEN (CHOOSE res \in { IF ~IsOk(x) THEN x
                              ELSE decode_struct(x.d, num,
                                       FieldInsert(result, RecFields[num], VUint(x.val)))
                              : x \in {read_uint(r.d)} } : TRUE)
                   ELSE Err(UnknownFieldDelta, r.d)
          : r \in {read_uint(d)} } : TRUE)

(***************************************************************************)
(* The map-mode decode that #[Gob] generates, for the record               *)
(* `struct Info { uid: i64, uname: String }`.                              *)
(***************************************************************************)
str_Info == <<73, 110, 102, 111>>           \* "Info"
str_uid == <<117, 105, 100>>                \* "uid"
str_uname == <<117, 110, 97, 109, 101>>     \* "uname"

\* the fields of Info and their types
MapFields == <<[name |-> str_uid, ty |-> "i64"], [name |-> str_uname, ty |-> "String"]>>

ExpectedString == "InvalidData: Expected String"
ExpectedInt == "InvalidData: Expected Int"
ExpectedBool == "InvalidData: Expected Bool"

\* TryFrom<Value> for T (src/src/value.rs); `u as i64` keeps the 64 bits
try_from(T, v) ==
    CASE T = "String" ->
            IF v.t = "String" THEN [err |-> "", val |-> VString(v.v)]
            ELSE [err |-> ExpectedString, val |-> <<>>]
      [] T = "i64" ->
            IF v.t = "Int" THEN [err |-> "", val |-> VInt(v.v)]
            ELSE IF v.t = "Uint" THEN [err |-> "", val |-> VInt(v.v)]
            ELSE [err |-> ExpectedInt, val |-> <<>>]
      [] T = "bool" ->
            IF v.t = "Bool" THEN [err |-> "", val |-> VBool(v.v)]
            ELSE [err |-> ExpectedBool, val |-> <<>>]

\* Info::default()
Info_default == <<(<<str_uid, VInt(Zero64)>>), (<<str_uname, VString(<<>>)>>)>>

\* `if let Value::String(key_str) = key_val { match key_str.as_str() { .. } }`
map_decode_fields(result, key_val, value_val) ==
    IF key_val.t # "String" THEN result
    ELSE IF \A k \in 1..Len(MapFields) : MapFields[k].name # key_val.v THEN result
    ELSE (CHOOSE res \in { (CHOOSE res2 \in { IF v.err = "" THEN FieldInsert(result, f.name, v.val)
                                              ELSE result
                                : v \in {try_from(f.ty, value_val)} } : TRUE)
               : f \in {MapFields[CHOOSE k \in 1..Len(MapFields) : MapFields[k].name = key_val.v]} } : TRUE)

RECURSIVE Info_decode_loop(_, _, _)
\* `for _ in 0..count` of the generated map decode
Info_decode_loop(d, count, result) ==
    IF count = 0 THEN Ok(VStruct(str_Info, result), d)
    ELSE (CHOOSE res \in { IF ~IsOk(key_val) THEN key_val
               ELSE (CHOOSE res2 \in { IF ~IsOk(value_val) THEN value_val
                          ELSE Info_decode_loop(value_val.d, count - 1,
                                   map_decode_fields(result, key_val.val, value_val.val))
                          : value_val \in {decode_interface(key_val.d)} } : TRUE)
               : key_val \in {decode_interface(d)} } : TRUE)

\* Info::decode_struct
Info_decode_struct(d) ==
    (CHOOSE res \in { IF ~IsOk(count) THEN count
          ELSE Info_decode_loop(count.d, AsUsize(count.val), Info_default)
          : count \in {read_uint(d)} } : TRUE)

\* the types T of decode_into::<T> that the model calls it with
DecodableTypes == {"bool", "i64", "u64", "f64", "String", "Vec<u8>", "Value", "Rec", "Info"}

\* GobDecodable::decode for T; the T decoded is shown as the Value of the same
\* content
T_decode(T, d) ==
    CASE T = "bool" ->
            (CHOOSE res \in { IF IsOk(r) THEN Ok(VBool(r.val), r.d) ELSE r : r \in {read_bool(d)} } : TRUE)
      [] T = "i64" ->
            (CHOOSE res \in { IF IsOk(r) THEN Ok(VInt(r.val), r.d) ELSE r : r \in {read_int(d)} } : TRUE)
      [] T = "u64" ->
            (CHOOSE res \in { IF IsOk(r) THEN Ok(VUint(r.val), r.d) ELSE r : r \in {read_uint(d)} } : TRUE)
      [] T = "f64" ->
            (CHOOSE res \in { IF IsOk(r) THEN Ok(VFloat(r.val), r.d) ELSE r : r \in {read_float(d)} } : TRUE)
      [] T = "String" ->
            (CHOOSE res \in { IF IsOk(r) THEN Ok(VString(r.val), r.d) ELSE r : r \in {read_string(d)} } : TRUE)
      [] T = "Vec<u8>" ->
            (CHOOSE res \in { IF IsOk(r) THEN Ok(VBytes(r.val), r.d) ELSE r : r \in {read_bytes(d)} } : TRUE)
      [] T = "Value" -> decode_interface(d)
      [] T = "Rec" -> decode_struct(d, -1, <<>>)
      [] T = "Info" -> Info_decode_struct(d)

\* the branch `else` of decode_into's loop: the T of a message of type type_id
TMessage(d, T, type_id) ==
    (CHOOSE res \in { IF ~IsOk(p) THEN p
          ELSE (CHOOSE res \in { IF ~IsOk(x) THEN x
                     ELSE (CHOOSE res \in { IF ~IsOk(g) THEN g ELSE Ok(x.val, g.d)
                                : g \in {Drain(x.d)} } : TRUE)
                     : x \in {T_decode(T, p.d)} } : TRUE)
          : p \in {IF type_id = 64 THEN Peek(d) ELSE Ok(<<>>, d)} } : TRUE)

RECURSIVE decode_into(_, _)
decode_into(d, T) ==
    (CHOOSE res \in { IF ~IsOk(l) THEN l
          ELSE (CHOOSE res \in { IF ~IsOk(t) THEN t
                     ELSE IF t.val < 0 THEN decode_into(t.d, T)
                     ELSE TMessage(t.d, T, t.val)
                     : t \in {MessageType(l.d, l.val)} } : TRUE)
          : l \in {read_raw_uint(d)} } : TRUE)

Decoder(method, d, arg) ==
    CASE method = "process_next_message_header" -> process_next_message_header(d)
      [] method = "decode_value" -> decode_value(d, arg)
      [] method = "read_next" -> read_next(d)
      [] method = "decode_into" -> decode_into(d, arg)
      [] method = "read_uint" -> read_uint(d)
      [] method = "read_int" -> read_int(d)
      [] method = "read_float" -> read_float(d)


(***************************************************************************)
(* GobWriter (src/src/writer.rs).  A writer w is the record of out (the    *)
(* bytes its encoder has written), type_ids, next_id and of two history    *)
(* fields: log, one record per frame written (kind, id, the ids the frame  *)
(* refers to, and its bytes after the length prefix), and uses, the ids    *)
(* the interface values of the message under construction refer to.        *)
(***************************************************************************)
get_type_id(w, schema_key) == schema_key \in DOMAIN w.type_ids

\* an assign_type_id that does not advance next_id
assign_type_id_again(w, schema_key) ==
    Ok(w.next_id, [w EXCEPT !.type_ids = Insert(@, schema_key, w.next_id)])

assign_type_id(w, schema_key) ==
    Ok(w.next_id, [w EXCEPT !.next_id = @ + 1,
                            !.type_ids = Insert(@, schema_key, w.next_id)])

\* a message whose length prefix counts the content and not the type id
WriteMessageShort(w, kind, id, refs, content) ==
    (CHOOSE res \in { [w EXCEPT !.out = @ \o write_uint(U64(Len(content))) \o type_id_buf \o content,
                    !.log = Append(@, [kind |-> kind, id |-> id, refs |-> refs,
                                       bytes |-> type_id_buf \o content])]
          : type_id_buf \in {write_int(I64(IF kind = "def" THEN -id ELSE id))} } : TRUE)

\* `[Length] [TypeID] [Content]`, as encode and the send_*_type_def write it
WriteMessage(w, kind, id, refs, content) ==
    (CHOOSE res \in { [w EXCEPT !.out = @ \o write_uint(U64(Len(type_id_buf) + Len(content)))
                              \o type_id_buf \o content,
                    !.log = Append(@, [kind |-> kind, id |-> id, refs |-> refs,
                                       bytes |-> type_id_buf \o content])]
          : type_id_buf \in {write_int(I64(IF kind = "def" THEN -id ELSE id))} } : TRUE)

send_map_type_def(w, id, key_id, elem_id) ==
    Ok(<<>>, WriteMessage(w, "def", id, {key_id, elem_id},
                          write_uint(U64(4))
                          \o write_uint(U64(2)) \o write_int(I64(key_id))
                          \o write_uint(U64(1)) \o write_int(I64(elem_id))
                          \o write_uint(U64(0))
                          \o write_uint(U64(0))))

RECURSIVE FieldDefBytesReversed(_)
\* a loop of send_struct_type_def that lists the last field first
FieldDefBytesReversed(fields) ==
    IF fields = <<>> THEN <<>>
    ELSE FieldDefBytesReversed(Tail(fields))
         \o write_uint(U64(1)) \o write_string(fields[1][1])
         \o write_uint(U64(1)) \o write_int(I64(fields[1][2]))
         \o write_uint(U64(0))

RECURSIVE FieldDefBytes(_)
\* the loop of send_struct_type_def over fields: <<name, id>>
FieldDefBytes(fields) ==
    IF fields = <<>> THEN <<>>
    ELSE write_uint(U64(1)) \o write_string(fields[1][1])
         \o write_uint(U64(1)) \o write_int(I64(fields[1][2]))
         \o write_uint(U64(0))
         \o FieldDefBytes(Tail(fields))

send_struct_type_def(w, id, name, fields) ==
    Ok(<<>>, WriteMessage(w, "def", id, {fields[i][2] : i \in 1..Len(fields)},
                          write_uint(U64(3))
                          \o write_uint(U64(1))
                          \o write_uint(U64(1)) \o write_string(name)
                          \o write_uint(U64(1)) \o write_int(I64(id))
                          \o write_uint(U64(0))
                          \o write_uint(U64(1))
                          \o write_uint(U64(Len(fields)))
                          \o FieldDefBytes(fields)
                          \o write_uint(U64(0))
                          \o write_uint(U64(0))))

ArrayNotImpl == "Other: Array encode not impl"

\* self.method(value, arg): the call by which the methods of GobWriter that take
\* part in a recursion through several methods reach one another
RECURSIVE GobWriter(_, _, _, _)

RECURSIVE ensure_fields_defined(_, _, _)
\* the loop of ensure_type_defined over a struct's fields: field_defs so far
ensure_fields_defined(w, fields, field_defs) ==
    IF fields = <<>> THEN Ok(field_defs, w)
    ELSE (CHOOSE res \in { IF ~IsOk(fid) THEN fid
               ELSE ensure_fields_defined(fid.d, Tail(fields),
                                          Append(field_defs, <<fields[1][1], fid.val>>))
               : fid \in {GobWriter("ensure_type_defined", w, fields[1][2], 0)} } : TRUE)

ensure_type_defined(w, value) ==
    CASE value.t = "Bool" -> Ok(1, w)
      [] value.t = "Int" -> Ok(2, w)
      [] value.t = "Uint" -> Ok(3, w)
      [] value.t = "Float" -> Ok(4, w)
      [] value.t = "Bytes" -> Ok(5, w)
      [] value.t = "String" -> Ok(6, w)
      [] value.t = "Map" ->
            IF get_type_id(w, str_Map88) THEN Ok(w.type_ids[str_Map88], w)
            ELSE (CHOOSE res \in { Ok(a.val, send_map_type_def(a.d, a.val, 8, 8).d)
                       : a \in {assign_type_id(w, str_Map88)} } : TRUE)
      [] value.t = "Struct" ->
            IF get_type_id(w, value.n) THEN Ok(w.type_ids[value.n], w)
            ELSE (CHOOSE res \in { IF ~IsOk(f) THEN f
                       ELSE (CHOOSE res \in { Ok(a.val, send_struct_type_def(a.d, a.val, value.n, f.val).d)
                                  : a \in {assign_type_id(f.d, value.n)} } : TRUE)
                       : f \in {ensure_fields_defined(w, value.v, <<>>)} } : TRUE)
      [] value.t = "Array" -> Err(ArrayNotImpl, w)
      [] value.t = "Nil" -> Ok(0, w)

RECURSIVE encode_map_entries(_, _)
\* the loop of encode_value_body over a map's pairs; the result is the bytes written to enc
encode_map_entries(w, m) ==
    IF m = <<>> THEN Ok(<<>>, w)
    ELSE (CHOOSE res \in { IF ~IsOk(k) THEN k
               ELSE (CHOOSE res \in { IF ~IsOk(v) THEN v
                          ELSE (CHOOSE res \in { IF ~IsOk(rest) THEN rest
                                     ELSE Ok(k.val \o v.val \o rest.val, rest.d)
                                     : rest \in {encode_map_entries(v.d, Tail(m))} } : TRUE)
                          : v \in {GobWriter("encode_interface_value", k.d, m[1][2], 0)} } : TRUE)
               : k \in {GobWriter("encode_interface_value", w, m[1][1], 0)} } : TRUE)

RECURSIVE encode_struct_fields(_, _, _, _)
\* the loop of encode_value_body over a struct's fields
encode_struct_fields(w, fields, current_idx, idx) ==
    IF fields = <<>> THEN Ok(<<>>, w)
    ELSE (CHOOSE res \in { IF ~IsOk(fid) THEN fid
               ELSE (CHOOSE res \in { IF ~IsOk(b) THEN b
                          ELSE (CHOOSE res \in { IF ~IsOk(rest) THEN rest
                                     ELSE Ok(write_uint(U64(idx - current_idx))
                                             \o b.val \o rest.val, rest.d)
                                     : rest \in {encode_struct_fields(b.d, Tail(fields),
                                                                      idx, idx + 1)} } : TRUE)
                          : b \in {GobWriter("encode_value_body", fid.d, fields[1][2],
                                             fid.val)} } : TRUE)
               : fid \in {GobWriter("ensure_type_defined", w, fields[1][2], 0)} } : TRUE)

encode_value_body(w, value, type_id) ==
    CASE value.t = "Bool" -> Ok(write_bool(value.v), w)
      [] value.t = "Int" -> Ok(write_int(value.v), w)
      [] value.t = "Uint" -> Ok(write_uint(value.v), w)
      [] value.t = "Float" -> Ok(write_float(value.v), w)
      [] value.t = "String" -> Ok(write_string(value.v), w)
      [] value.t = "Bytes" -> Ok(write_bytes(value.v), w)
      [] value.t = "Map" ->
            (CHOOSE res \in { IF ~IsOk(e) THEN e ELSE Ok(write_uint(U64(Len(value.v))) \o e.val, e.d)
                  : e \in {encode_map_entries(w, value.v)} } : TRUE)
      [] value.t = "Struct" ->
            (CHOOSE res \in { IF ~IsOk(e) THEN e ELSE Ok(e.val \o write_uint(U64(0)), e.d)
                  : e \in {encode_struct_fields(w, value.v, -1, 0)} } : TRUE)
      [] OTHER -> Ok(<<>>, w)

\* the name match of encode_interface_value
InterfaceName(value) ==
    CASE value.t = "Bool" -> str_bool
      [] value.t = "Int" -> str_int64
      [] value.t = "Uint" -> str_uint
      [] value.t = "Float" -> str_float64
      [] value.t = "String" -> str_string
      [] value.t = "Bytes" -> str_bytes
      [] value.t = "Struct" -> value.n
      [] value.t = "Map" -> str_map
      [] value.t = "Nil" -> <<>>
      [] OTHER -> str_unknown

encode_interface_value(w, value) ==
    IF InterfaceName(value) = <<>> THEN Ok(write_string(<<>>), w)
    ELSE (CHOOSE res \in { IF ~IsOk(t) THEN t
               ELSE (CHOOSE res \in { IF ~IsOk(b) THEN b
                          ELSE Ok(write_string(InterfaceName(value)) \o write_int(I64(t.val))
                                  \o write_uint(U64(Len(b.val))) \o b.val, b.d)
                          : b \in {encode_value_body([t.d EXCEPT !.uses = @ \cup {t.val}],
                                                     value, t.val)} } : TRUE)
               : t \in {ensure_type_defined(w, value)} } : TRUE)

\* GobWriter::encode
encode(w, value) ==
    (CHOOSE res \in { IF ~IsOk(t) THEN t
          ELSE (CHOOSE res \in { IF ~IsOk(b) THEN b
                     ELSE Ok(<<>>, WriteMessage(b.d, "value", t.val,
                                                {t.val} \cup b.d.uses, b.val))
                     : b \in {encode_value_body(t.d, value, t.val)} } : TRUE)
          : t \in {ensure_type_defined([w EXCEPT !.uses = {}], value)} } : TRUE)

GobWriter(method, w, value, arg) ==
    CASE method = "ensure_type_defined" -> ensure_type_defined(w, value)
      [] method = "encode_value_body" -> encode_value_body(w, value, arg)
      [] method = "encode_interface_value" -> encode_interface_value(w, value)
      [] method = "encode" -> encode(w, value)


(***************************************************************************)
(* GobEncodable (src/src/encode.rs): the impls for bool, i64, u64, f64,    *)
(* String and Vec<u8>, by the kind of the value, and encode_as_interface.  *)
(***************************************************************************)
str_uint64 == <<117, 105, 110, 116, 54, 52>>      \* "uint64"

\* GobEncodable::type_id
T_type_id(value) ==
    CASE value.t = "Bool" -> 1
      [] value.t = "Int" -> 2
      [] value.t = "Uint" -> 3
      [] value.t = "Float" -> 4
      [] value.t = "String" -> 6
      [] value.t = "Bytes" -> 5

\* GobEncodable::type_name
T_type_name(value) ==
    CASE value.t = "Bool" -> str_bool
      [] value.t = "Int" -> str_int64
      [] value.t = "Uint" -> str_uint64
      [] value.t = "Float" -> str_float64
      [] value.t = "String" -> str_string
      [] value.t = "Bytes" -> str_bytes

\* GobEncodable::encode
T_encode(value) ==
    CASE value.t = "Bool" -> write_bool(value.v)
      [] value.t = "Int" -> write_int(value.v)
      [] value.t = "Uint" -> write_uint(value.v)
      [] value.t = "Float" -> write_float(value.v)
      [] value.t = "String" -> write_string(value.v)
      [] value.t = "Bytes" -> write_bytes(value.v)

\* `[TypeName] [TypeID] [Length] [Value]`, the length counting a 0 byte
encode_as_interface(value) ==
    (CHOOSE res \in { write_string(T_type_name(value)) \o write_int(I64(T_type_id(value)))
                      \o write_uint(U64(Len(value_buf) + 1)) \o <<0>> \o value_buf
          : value_buf \in {T_encode(value)} } : TRUE)

(***************************************************************************)
(* The encode that #[Gob] generates (src/crates/gob-macro/lib.rs): in      *)
(* struct-delta mode for `struct Rec { x: u64 }`, in map mode for          *)
(* `struct Info { uid: i64, uname: String }` bound with id = 64 and        *)
(* interpret_as = "map[interface{}]interface{}", as main.rs binds UserInfo.*)
(* A record is shown as the Struct value of its fields.                    *)
(***************************************************************************)
\* self.<field>
FieldOf(rec, name) == rec.v[CHOOSE k \in 1..Len(rec.v) : rec.v[k][1] = name][2]

RECURSIVE encode_fields(_, _, _)
\* the encode_fields of the fields from the index-th on (field_num =
\* index + 1 for the index from 0), then the delta 0 that ends the struct
encode_fields(rec, field_num, last_field_num) ==
    IF field_num > Len(RecFields) THEN write_uint(Zero64)
    ELSE write_uint(U64(field_num - last_field_num))
         \o T_encode(FieldOf(rec, RecFields[field_num]))
         \o encode_fields(rec, field_num + 1, field_num)

\* Rec::encode
Rec_encode(rec) == encode_fields(rec, 1, 0)

RECURSIVE map_encode_fields(_)
\* the map_encode_fields of the fields, which are sorted by name
map_encode_fields(fields) ==
    IF fields = <<>> THEN <<>>
    ELSE write_string(fields[1][1]) \o write_int(I64(6))
         \o write_uint(U64(Len(fields[1][1]))) \o fields[1][1]
         \o encode_as_interface(fields[1][2])
         \o map_encode_fields(Tail(fields))

\* Info::encode
Info_encode(rec) == write_uint(U64(Len(rec.v))) \o map_encode_fields(rec.v)

\* the message of type type_id with the body body
RecordFrame(type_id, body) ==
    (CHOOSE res \in { write_uint(U64(Len(id) + Len(body))) \o id \o body
          : id \in {write_int(I64(type_id))} } : TRUE)

\* the map of one pair, each of the key String(key) and of value an interface
\* value as encode_as_interface writes it, in a message of type 64
MapFrame(key, value) ==
    RecordFrame(64, write_uint(U64(1)) \o encode_as_interface(VString(key))
                    \o encode_as_interface(value))

RecOne == VStruct(str_Rec, <<(<<RecFields[1], VUint(U64(1))>>)>>)

InfoOne == VStruct(str_Info, <<(<<str_uid, VInt(I64(5))>>), (<<str_uname, VString(<<104, 105>>)>>)>>)

\* what the generated encode wrote for RecOne and for InfoOne, as messages
EncodedRecords == {RecordFrame(0, Rec_encode(RecOne)), RecordFrame(64, Info_encode(InfoOne))}

\* maps of a key of Info: an Int for the String field, a String for it, a Uint
\* for the i64 field
MapFrames ==
    {MapFrame(str_uname, VInt(I64(5))), MapFrame(str_uname, VString(<<104, 105>>)),
     MapFrame(str_uid, VUint(U64(300)))}


(***************************************************************************)
(* The state machine.  The writer and the decoder are the records of the   *)
(* state variables that hold their fields.                                 *)
(***************************************************************************)
TheWriter == [out |-> out, type_ids |-> type_ids, next_id |-> next_id, log |-> log,
              uses |-> {}]

TheDecoder == [reader |-> reader, types |-> types, stash |-> stash,
               current_msg_remaining |-> current_msg_remaining,
               refilled |-> FALSE, drained |-> 0]

\* GobWriter::new
NewWriter == [out |-> <<>>, type_ids |-> <<>>, next_id |-> 65, log |-> <<>>, uses |-> {}]

WriterIs(w) ==
    /\ out = w.out
    /\ type_ids = w.type_ids
    /\ next_id = w.next_id
    /\ log = w.log

\* Decoder::new(source)
DecoderOver(source) ==
    /\ reader = source
    /\ types = NewTypes
    /\ stash = <<>>
    /\ current_msg_remaining = 0

\* a call of the decoder's public method op, which returned r
Called(op, r) ==
    /\ reader' = r.d.reader
    /\ types' = r.d.types
    /\ stash' = r.d.stash
    /\ current_msg_remaining' = r.d.current_msg_remaining
    /\ calls' = Append(calls, [op |-> op, err |-> r.err, val |-> r.val,
                               before |-> reader, after |-> r.d.reader,
                               known |-> DOMAIN types, types0 |-> types, stash0 |-> stash,
                               rem |-> r.d.current_msg_remaining,
                               refilled |-> r.d.refilled, drained |-> r.d.drained])
    \* a decoder that returned an error, or the end of the stream, is not used again
    /\ pc' = IF IsOk(r) /\ ~(op = "read_next" /\ r.val = None) THEN "read" ELSE "done"
    /\ UNCHANGED <<out, type_ids, next_id, log, sent>>

\* GobWriter::encode(value)
Encode(value) ==
    /\ pc = "write"
    /\ Len(sent) < MaxEncodes
    /\ \E r \in {GobWriter("encode", TheWriter, value, 0)} :
          /\ out' = r.d.out
          /\ type_ids' = r.d.type_ids
          /\ next_id' = r.d.next_id
          /\ log' = r.d.log
          /\ sent' = Append(sent, [value |-> value, err |-> r.err])
    /\ UNCHANGED <<reader, types, stash, current_msg_remaining, pc, calls>>

\* Decoder::new over the bytes written
Open ==
    /\ pc = "write"
    /\ pc' = "read"
    /\ reader' = out
    /\ types' = NewTypes
    /\ stash' = <<>>
    /\ current_msg_remaining' = 0
    /\ UNCHANGED <<out, type_ids, next_id, log, sent, calls>>

ReadNext ==
    /\ pc = "read"
    /\ \E r \in {Decoder("read_next", TheDecoder, <<>>)} : Called("read_next", r)

DecodeInto(T) ==
    /\ pc = "read"
    /\ \E r \in {Decoder("decode_into", TheDecoder, T)} : Called(T, r)

ReadUint ==
    /\ pc = "read"
    /\ \E r \in {Decoder("read_uint", TheDecoder, <<>>)} : Called("read_uint", r)

ReadInt ==
    /\ pc = "read"
    /\ \E r \in {Decoder("read_int", TheDecoder, <<>>)} : Called("read_int", r)

ReadFloat ==
    /\ pc = "read"
    /\ \E r \in {Decoder("read_float", TheDecoder, <<>>)} : Called("read_float", r)

(***************************************************************************)
(* Spec: values are encoded by one GobWriter, then a Decoder is opened     *)
(* over the bytes written and read_next is called on it.                   *)
(***************************************************************************)
str_hi == <<104, 105>>      \* "hi"
str_k == <<107>>            \* "k"
str_x == <<120>>            \* "x"
str_P == <<80>>             \* "P"
str_Q == <<81>>             \* "Q"
str_A == <<65>>             \* "A"
str_B == <<66>>             \* "B"

\* a map of one pair, a struct of one field
MapOf(k, v) == VMap(MapInsert(<<>>, k, v))
StructOf(name, field, v) == VStruct(name, FieldInsert(<<>>, field, v))

\* a struct of the fields A = Int 7 and B = String "hi"
StructAB ==
    VStruct(str_P, FieldInsert(FieldInsert(<<>>, str_B, VString(str_hi)), str_A, VInt(I64(7))))

\* the values handed to encode
Values ==
    <<VNil, VBool(TRUE), VInt(I64(0)), VInt(I64(-3)), VUint(U64(300)),
      VFloat(<<63, 240, 0, 0, 0, 0, 0, 0>>), VString(<<>>), VString(str_hi),
      VBytes(<<1, 2>>), VArray(<<>>), VMap(<<>>),
      MapOf(VString(str_k), VInt(I64(-3))),
      MapOf(VString(str_k), VNil),
      MapOf(VString(str_k), VUint(U64(300))),
      MapOf(VString(str_k), VArray(<<>>)),
      MapOf(VInt(I64(-3)), StructOf(str_P, str_x, VInt(I64(-3)))),
      StructOf(str_P, str_x, VInt(I64(-3))),
      StructOf(str_P, str_x, VNil),
      StructOf(str_Struct, str_x, VInt(I64(-3))),
      StructOf(str_Struct, str_x, VNil),
      VStruct(str_Struct, FieldInsert(FieldInsert(<<>>, str_x, VString(str_hi)),
                                      str_k, VBool(TRUE))),
      StructOf(str_Q, str_x, StructOf(str_P, str_x, VInt(I64(-3)))),
      StructAB>>

Init ==
    /\ WriterIs(NewWriter)
    /\ DecoderOver(<<>>)
    /\ pc = "write"
    /\ sent = <<>>
    /\ calls = <<>>

Next ==
    \/ \E i \in 1..Len(Values) : Encode(Values[i])
    \/ Open
    \/ ReadNext

Spec == Init /\ [][Next]_vars

(***************************************************************************)
(* SpecDec: a decoder over a source of arbitrary bytes (which may follow   *)
(* one well-formed frame that has a surplus byte), or over a written       *)
(* stream that lacks its last byte, on which read_next and decode_into are *)
(* called.                                                                 *)
(***************************************************************************)
WireBytes == {0, 1, 2, 20, 255}

RECURSIVE SeqsUpTo(_, _)
\* the sequences over S of length at most n
SeqsUpTo(S, n) ==
    IF n = 0 THEN {<<>>}
    ELSE {<<>>} \cup {<<b>> \o s : b \in S, s \in SeqsUpTo(S, n - 1)}

\* a Bool frame (id 1) of body length 2: the value and one surplus byte
SurplusFrame == <<3, 2, 1, 0>>
\* a Bool frame (id 1) of no body: its value is not in it
ShortFrame == <<1, 2>>
\* a Uint frame (id 3) whose value has the count byte of 9 value bytes
WideFrame == <<11, 6, 247, 0, 0, 0, 0, 0, 0, 0, 0, 1>>
\* frames of a struct body of one field delta (1 or 2), the byte 1 and the end
RecFrames == {<<4, 2, 1, 1, 0>>, <<4, 2, 2, 1, 0>>}
\* a Bool frame (id 1) of just its value
BoolFrame == <<2, 2, 1>>

\* what a new GobWriter writes for one value
Written == {GobWriter("encode", NewWriter, Values[i], 0).d.out : i \in 1..Len(Values)}

\* the streams of which the decoder is also given all but the last byte
CutStreams == {SurplusFrame, BoolFrame} \cup (Written \ {<<>>})

\* what a new GobWriter writes for a struct of one field, with the field delta
\* of its value frame (the third byte from the end) raised from 1 to 2
StructStream == GobWriter("encode", NewWriter, StructOf(str_P, str_x, VInt(I64(-3))), 0).d.out
BadIndexStream == [StructStream EXCEPT ![Len(StructStream) - 2] = 2]

\* interface values: the name and the id transmitted, the payload, and the
\* value that the payload is by the schema of the id
IfaceCases ==
    <<[name |-> str_int64, id |-> 2, payload |-> <<84>>, value |-> VInt(I64(42))],
      [name |-> str_int64, id |-> 2, payload |-> <<0>>, value |-> VInt(I64(0))],
      [name |-> str_bool, id |-> 1, payload |-> <<0>>, value |-> VBool(FALSE)],
      [name |-> str_string, id |-> 6, payload |-> <<0>>, value |-> VString(<<>>)],
      [name |-> str_uint, id |-> 3, payload |-> <<254, 1, 44>>, value |-> VUint(U64(300))],
      [name |-> str_string, id |-> 2, payload |-> <<84>>, value |-> VInt(I64(42))]>>

\* the frame of id 8 (Interface) of an interface value, the payload with a
\* zero byte before it (counted in the value length) or without
IfaceFrame(c, marker) ==
    (CHOOSE res \in { write_uint(U64(1 + Len(body))) \o write_int(I64(8)) \o body
          : body \in {write_string(c.name) \o write_int(I64(c.id))
                       \o write_uint(U64(Len(c.payload) + (IF marker THEN 1 ELSE 0)))
                       \o (IF marker THEN <<0>> ELSE <<>>) \o c.payload} } : TRUE)

IfaceFrames == {IfaceFrame(IfaceCases[k], m) : k \in 1..Len(IfaceCases), m \in BOOLEAN}

\* the frame of an interface value of a name that is no primitive's, the id 1
\* and the value length 0, which ends with the byte 1; then a Bool frame
StashStream == <<6, 16, 1, 1, 2, 0, 1>> \o BoolFrame

\* s without its last byte
Front(s) == SubSeq(s, 1, Len(s) - 1)

InitDec ==
    /\ \/ \E p \in {<<>>, SurplusFrame, ShortFrame}, t \in SeqsUpTo(WireBytes, MaxWire) :
             out = p \o t /\ DecoderOver(out)
       \/ \E s \in CutStreams : out = s /\ DecoderOver(Front(s))
       \/ \E s \in {WideFrame, BadIndexStream, StashStream} \cup RecFrames \cup IfaceFrames
                  \cup EncodedRecords \cup MapFrames :
             out = s /\ DecoderOver(out)
    /\ type_ids = <<>>
    /\ next_id = 65
    /\ log = <<>>
    /\ pc = "read"
    /\ sent = <<>>
    /\ calls = <<>>

NextDec ==
    \/ ReadNext
    \/ \E T \in DecodableTypes : DecodeInto(T)

SpecDec == InitDec /\ [][NextDec]_vars

(***************************************************************************)
(* SpecCodec: a decoder over what the encoder wrote for one number, either *)
(* the bare bytes of Encoder::write_uint / write_int / write_float (as the *)
(* tests of encode.rs set it up) or the message GobWriter::encode wrote.   *)
(***************************************************************************)
HeadBytes == {1, 2, 127, 128, 255}
FillBytes == {0, 255}

\* 64-bit words of every byte length, with the extreme values of u64 and i64
U64Samples ==
    {Zero64} \cup
    {BigEndianReadUint(<<h>> \o f) :
        h \in HeadBytes, f \in UNION {[1..n -> FillBytes] : n \in 0..7}}

BareBytes(value) ==
    CASE value.t = "Uint" -> write_uint(value.v)
      [] value.t = "Int" -> write_int(value.v)
      [] value.t = "Float" -> write_float(value.v)

InitCodec ==
    \E x \in U64Samples, kind \in {"Uint", "Int", "Float"}, framed \in BOOLEAN :
        \E w \in {IF framed
                  THEN GobWriter("encode", NewWriter, [t |-> kind, v |-> x], 0).d
                  ELSE [NewWriter EXCEPT !.out = BareBytes([t |-> kind, v |-> x])]} :
            /\ sent = <<[value |-> [t |-> kind, v |-> x], err |-> ""]>>
            /\ WriterIs(w)
            /\ DecoderOver(out)
            /\ pc = "read"
            /\ calls = <<>>

NextCodec ==
    \/ calls = <<>> /\ log = <<>> /\ ReadUint
    \/ calls = <<>> /\ log = <<>> /\ ReadInt
    \/ calls = <<>> /\ log = <<>> /\ ReadFloat
    \/ log # <<>> /\ \E T \in {"u64", "i64", "f64"} : DecodeInto(T)

SpecCodec == InitCodec /\ [][NextCodec]_vars

(***************************************************************************)
(* SpecEnc: one value is written, by Encoder::write_uint / write_int /     *)
(* write_float for a number, or as an interface value by                   *)
(* encode_as_interface or by GobWriter::encode_interface_value.            *)
(***************************************************************************)
\* the 64-bit words written: U64Samples and the numbers -128 and 42
EncSamples == U64Samples \cup {I64(-128), I64(42)}

\* the values other than numbers written as interface values
EncOthers == <<VBool(TRUE), VBool(FALSE), VString(<<>>), VString(str_hi), VBytes(<<1, 2>>)>>

InitEnc ==
    /\ \/ \E x \in EncSamples, kind \in {"Uint", "Int", "Float"} :
             sent = <<[value |-> [t |-> kind, v |-> x], err |-> ""]>>
       \/ \E i \in 1..Len(EncOthers) : sent = <<[value |-> EncOthers[i], err |-> ""]>>
    /\ WriterIs(NewWriter)
    /\ DecoderOver(<<>>)
    /\ pc = "write"
    /\ calls = <<>>

\* the call op wrote bytes to the sink
Wrote(op, bytes, err) ==
    /\ out' = out \o bytes
    /\ calls' = Append(calls, [op |-> op, err |-> err])
    /\ pc' = "done"
    /\ UNCHANGED <<type_ids, next_id, log, sent, reader, types, stash, current_msg_remaining>>

WriteUint ==
    /\ pc = "write"
    /\ sent[1].value.t = "Uint"
    /\ Wrote("write_uint", write_uint(sent[1].value.v), "")

WriteInt ==
    /\ pc = "write"
    /\ sent[1].value.t = "Int"
    /\ Wrote("write_int", write_int(sent[1].value.v), "")

WriteFloat ==
    /\ pc = "write"
    /\ sent[1].value.t = "Float"
    /\ Wrote("write_float", write_float(sent[1].value.v), "")

EncodeAsInterface ==
    /\ pc = "write"
    /\ Wrote("encode_as_interface", encode_as_interface(sent[1].value), "")

EncodeInterfaceValue ==
    /\ pc = "write"
    /\ \E r \in {GobWriter("encode_interface_value", TheWriter, sent[1].value, 0)} :
          Wrote("encode_interface_value", r.val, r.err)

NextEnc ==
    \/ WriteUint
    \/ WriteInt
    \/ WriteFloat
    \/ EncodeAsInterface
    \/ EncodeInterfaceValue

SpecEnc == InitEnc /\ [][NextEnc]_vars
(***************************************************************************)
(* SpecVal: three dynamic values are compared with Ord::cmp and            *)
(* PartialEq::eq, or the first of them is converted with TryFrom<Value>    *)
(* (src/src/value.rs).                                                     *)
(***************************************************************************)
RECURSIVE eq(_, _)
\* PartialEq::eq; a Float is kept as its bits
eq(a, b) ==
    IF a.t # b.t THEN FALSE
    ELSE CASE a.t = "Nil" -> TRUE
           [] a.t \in {"Bool", "Int", "Uint", "Float", "String", "Bytes"} -> a.v = b.v
           [] a.t = "Array" ->
                 /\ Len(a.v) = Len(b.v)
                 /\ \A k \in 1..Len(a.v) : eq(a.v[k], b.v[k])
           [] a.t = "Map" ->
                 /\ Len(a.v) = Len(b.v)
                 /\ \A k \in 1..Len(a.v) : eq(a.v[k][1], b.v[k][1]) /\ eq(a.v[k][2], b.v[k][2])
           [] a.t = "Struct" ->
                 /\ a.n = b.n
                 /\ Len(a.v) = Len(b.v)
                 /\ \A k \in 1..Len(a.v) : a.v[k][1] = b.v[k][1] /\ eq(a.v[k][2], b.v[k][2])

\* f64 bit patterns: 0.0, -0.0, 1.0, a NaN, -1.0
FloatBits ==
    <<Zero64, <<128, 0, 0, 0, 0, 0, 0, 0>>, <<63, 240, 0, 0, 0, 0, 0, 0>>,
      <<127, 248, 0, 0, 0, 0, 0, 0>>, <<191, 240, 0, 0, 0, 0, 0, 0>>>>

\* 2^63 and 2^64 - 1
Uint63 == <<128, 0, 0, 0, 0, 0, 0, 0>>
UintMax == <<255, 255, 255, 255, 255, 255, 255, 255>>

OrdSamples ==
    <<VNil, VBool(FALSE), VBool(TRUE),
      VInt(I64(-3)), VInt(Zero64), VInt(I64(42)),
      VUint(Zero64), VUint(U64(300)), VUint(Uint63), VUint(UintMax),
      VFloat(FloatBits[1]), VFloat(FloatBits[2]), VFloat(FloatBits[3]),
      VFloat(FloatBits[4]), VFloat(FloatBits[5]),
      VString(<<>>), VString(str_hi), VBytes(<<>>), VBytes(<<1, 2>>),
      VArray(<<>>), VArray(<<VInt(Zero64)>>), VArray(<<VInt(Zero64), VNil>>),
      VMap(<<>>), MapOf(VString(str_k), VInt(I64(-3))), MapOf(VString(str_k), VNil),
      StructOf(str_P, str_x, VNil), StructOf(str_Q, str_x, VNil), StructAB>>

InitVal ==
    /\ \E i, j, k \in 1..Len(OrdSamples) : sent = <<OrdSamples[i], OrdSamples[j], OrdSamples[k]>>
    /\ out = <<>>
    /\ type_ids = <<>>
    /\ next_id = 65
    /\ log = <<>>
    /\ DecoderOver(<<>>)
    /\ pc = "value"
    /\ calls = <<>>

\* a.cmp(&b), b.cmp(&a), b.cmp(&c), a.cmp(&c) and a == b
Compare ==
    /\ pc = "value"
    /\ calls = <<>>
    /\ calls' = <<[op |-> "cmp",
                   ab |-> cmp(sent[1], sent[2]), ba |-> cmp(sent[2], sent[1]),
                   bc |-> cmp(sent[2], sent[3]), ac |-> cmp(sent[1], sent[3]),
                   eq |-> eq(sent[1], sent[2])]>>
    /\ UNCHANGED <<out, type_ids, next_id, reader, types, stash, current_msg_remaining,
                   pc, sent, log>>

\* T::try_from(a)
TryFrom(T) ==
    /\ pc = "value"
    /\ calls = <<>>
    /\ \E r \in {try_from(T, sent[1])} :
          calls' = <<[op |-> T, err |-> r.err, val |-> r.val]>>
    /\ UNCHANGED <<out, type_ids, next_id, reader, types, stash, current_msg_remaining,
                   pc, sent, log>>

NextVal ==
    \/ Compare
    \/ \E T \in {"i64", "String", "bool"} : TryFrom(T)

SpecVal == InitVal /\ [][NextVal]_vars


(***************************************************************************)
(* Properties.  The frames of a byte string are found here by the length   *)
(* prefixes alone, independently of the decoder.                           *)
(***************************************************************************)
\* the uvarint that begins at index i of bytes: <<its value, the bytes it takes>>,
\* or <<>> if none begins there
UvarintAt(bytes, i) ==
    IF i > Len(bytes) THEN <<>>
    ELSE IF bytes[i] < 128 THEN <<bytes[i], 1>>
    ELSE IF 256 - bytes[i] > 8 \/ i + (256 - bytes[i]) > Len(bytes) THEN <<>>
    ELSE <<AsUsize(BigEndianReadUint(SubSeq(bytes, i + 1, i + (256 - bytes[i])))),
           1 + (256 - bytes[i])>>

RECURSIVE FramesFrom(_, _)
\* what follows the length prefix in each of the frames that bytes consists of
\* from index i on; bytes that make no whole frame give a last entry <<-1>>
FramesFrom(bytes, i) ==
    IF i > Len(bytes) THEN <<>>
    ELSE (CHOOSE res \in { IF u = <<>> \/ i + u[2] + u[1] - 1 > Len(bytes) THEN <<(<<-1>>)>>
               ELSE <<SubSeq(bytes, i + u[2], i + u[2] + u[1] - 1)>>
                    \o FramesFrom(bytes, i + u[2] + u[1])
               : u \in {UvarintAt(bytes, i)} } : TRUE)

RECURSIVE FrameStarts(_, _)
\* the indices at which the bytes stand after one or more whole frames, the
\* first of which begins at index i (Len(bytes) + 1 is the end of the bytes)
FrameStarts(bytes, i) ==
    IF i > Len(bytes) THEN {}
    ELSE (CHOOSE res \in { IF u = <<>> \/ i + u[2] + u[1] - 1 > Len(bytes) THEN {}
               ELSE {i + u[2] + u[1]} \cup FrameStarts(bytes, i + u[2] + u[1])
               : u \in {UvarintAt(bytes, i)} } : TRUE)

\* the frame that begins at index i of bytes is a definition: its id is negative
\* (the lowest bit of the uvarint of the id is set)
IsDefinitionAt(bytes, i) ==
    \E u \in {UvarintAt(bytes, i)} :
        /\ u # <<>>
        /\ u[1] > 0
        /\ \E t \in {UvarintAt(bytes, i + u[2])} :
              /\ t # <<>>
              /\ bytes[i + u[2] + t[2] - 1] % 2 = 1

RECURSIVE ValueFrameEnd(_, _)
\* the index just after the first frame from index i on that is not a
\* definition; 0 if the bytes hold no such whole frame
ValueFrameEnd(bytes, i) ==
    IF i > Len(bytes) THEN 0
    ELSE (CHOOSE res \in { IF u = <<>> \/ i + u[2] + u[1] - 1 > Len(bytes) THEN 0
               ELSE IF IsDefinitionAt(bytes, i) THEN ValueFrameEnd(bytes, i + u[2] + u[1])
               ELSE i + u[2] + u[1]
               : u \in {UvarintAt(bytes, i)} } : TRUE)

\* bytes is a sequence of whole frames
WholeFrames(bytes) == bytes = <<>> \/ (Len(bytes) + 1) \in FrameStarts(bytes, 1)

\* the call was the first on a decoder over the bare bytes an Encoder wrote for
\* a number of the kind
BareCall(c, op, kind) == c.op = op /\ log = <<>> /\ sent[1].value.t = kind

\* C1: for every u64 u, Decoder::read_uint over the bytes Encoder::write_uint(u)
\* produced returns exactly u.
C1_ReadUintReturnsWritten ==
    \A i \in 1..Len(calls) :
        BareCall(calls[i], "read_uint", "Uint")
            => calls[i].err = "" /\ calls[i].val = sent[1].value.v

\* C2: for every i64 i (i64::MIN and i64::MAX included), Decoder::read_int over
\* the bytes Encoder::write_int(i) produced returns exactly i.
C2_ReadIntReturnsWritten ==
    \A i \in 1..Len(calls) :
        BareCall(calls[i], "read_int", "Int")
            => calls[i].err = "" /\ calls[i].val = sent[1].value.v

\* C3: for every 64-bit pattern of a float, Decoder::read_float over the bytes
\* Encoder::write_float produced returns the float of the identical bit pattern.
C3_ReadFloatReturnsWritten ==
    \A i \in 1..Len(calls) :
        BareCall(calls[i], "read_float", "Float")
            => calls[i].err = "" /\ calls[i].val = sent[1].value.v

\* Inside a message the three codecs do round-trip: decode_into::<u64 / i64 / f64>
\* over the message GobWriter::encode wrote for a number returns that number.
InMessageRoundTrip ==
    \A i \in 1..Len(calls) :
        ( /\ i = 1
          /\ log # <<>>
          /\ calls[i].op = (CASE sent[1].value.t = "Uint" -> "u64"
                              [] sent[1].value.t = "Int" -> "i64"
                              [] sent[1].value.t = "Float" -> "f64") )
            => calls[i].err = "" /\ calls[i].val = sent[1].value

\* C4: the stream GobWriter::encode wrote for the values v1, v2, ... is decoded
\* by successive calls of Decoder::read_next to values equal to v1, v2, ...
\* under the canonical ordering.
C4_ReadNextReturnsEncoded ==
    \A i \in 1..Len(calls) :
        (i <= Len(sent) /\ \A j \in 1..Len(sent) : sent[j].err = "")
            => /\ calls[i].err = ""
               /\ calls[i].val # None
               /\ cmp(calls[i].val[1], sent[i].value) = 0

\* C5: every frame GobWriter writes begins with a uvarint equal to the number of
\* bytes of the encoded id and the body that follow it: split by its length
\* prefixes alone, the stream is exactly the frames written, each beginning with
\* its encoded id, with no overlap and no gap.
C5_FramesAreLengthPrefixed ==
    /\ FramesFrom(out, 1) = [i \in 1..Len(log) |-> log[i].bytes]
    /\ \A i \in 1..Len(log) :
          \E id \in {write_int(I64(IF log[i].kind = "def" THEN -log[i].id ELSE log[i].id))} :
              /\ Len(log[i].bytes) >= Len(id)
              /\ SubSeq(log[i].bytes, 1, Len(id)) = id

\* a stream of a struct definition, a map definition and a value frame with a body
C5_Witness ==
    /\ \E i \in 1..Len(log) : log[i].kind = "def" /\ log[i].refs # {8}
    /\ \E i \in 1..Len(log) : log[i].kind = "def" /\ log[i].refs = {8}
    /\ \E i \in 1..Len(log) : log[i].kind = "value" /\ Len(log[i].bytes) > 2

\* C6: every identifier that a value frame, an interface value inside a frame or
\* a field of a struct definition refers to is a predefined primitive identifier
\* or has its definition frame earlier in the stream.
C6_DefinedBeforeUse ==
    \A i \in 1..Len(log) :
        \A id \in log[i].refs :
            \/ id \in 1..8
            \/ \E j \in 1..(i - 1) : log[j].kind = "def" /\ log[j].id = id

\* C7: a call of read_next or decode_into that meets a value frame whose type
\* identifier has no registered schema fails with the unknown-type error.
C7_UnknownIdFails ==
    \A i \in 1..Len(calls) :
        ( /\ calls[i].stash0 = <<>>
          /\ Len(calls[i].before) >= 2
          /\ calls[i].before[1] \in 1..127          \* the length of the frame
          /\ calls[i].before[2] < 128
          /\ calls[i].before[2] % 2 = 0             \* its id, not negative
          /\ (calls[i].before[2] \div 2) \notin calls[i].known )
            => calls[i].err = UnknownTypeId

\* C8: a call that needs more bytes than remain in the current message's budget
\* fails; it is never satisfied with the bytes of a following frame.
C8_OverReadFails ==
    \A i \in 1..Len(calls) : calls[i].refilled => calls[i].err # ""

\* C9: when read_next returns the value of a frame without having needed more
\* than the frame's bytes, it has discarded exactly the rest of that frame: the
\* source stands just after the first value frame, at the length prefix of the
\* next frame, nothing of the message remains, and the next call starts there.
C9_SurplusDrained ==
    \A i \in 1..Len(calls) :
        ( /\ calls[i].op = "read_next"
          /\ calls[i].err = ""
          /\ calls[i].val # None
          /\ ~calls[i].refilled )
            => /\ Len(calls[i].before) - Len(calls[i].after) + 1
                      = ValueFrameEnd(calls[i].before, 1)
               /\ calls[i].rem = 0
               /\ i < Len(calls) => calls[i + 1].before = calls[i].after

\* read_next returned the value of a frame that had a surplus byte, which it
\* discarded, and the next read_next returned the value of the next frame
C9_Witness ==
    \E i \in 1..(Len(calls) - 1) :
        /\ calls[i].op = "read_next" /\ calls[i].err = "" /\ calls[i].val # None
        /\ ~calls[i].refilled
        /\ calls[i].drained > 0
        /\ calls[i + 1].op = "read_next" /\ calls[i + 1].err = "" /\ calls[i + 1].val # None
        /\ ~calls[i + 1].refilled

\* C10: read_next returns None only when the source is exhausted exactly at a
\* message boundary.
C10_NoneOnlyAtBoundary ==
    \A i \in 1..Len(calls) :
        ( /\ calls[i].op = "read_next"
          /\ calls[i].err = ""
          /\ calls[i].val = None
          /\ ~calls[i].refilled )
            => WholeFrames(calls[i].before)


\* a Decoder::new over the bytes
FreshDecoder(bytes) ==
    [reader |-> bytes, types |-> NewTypes, stash |-> <<>>,
     current_msg_remaining |-> 0, refilled |-> FALSE, drained |-> 0]

\* bytes is whole frames the last of which is the only value frame, and
\* read_next on a new decoder returns its value without needing more bytes
ValidFrame(bytes) ==
    /\ ValueFrameEnd(bytes, 1) = Len(bytes) + 1
    /\ \E r \in {Decoder("read_next", FreshDecoder(bytes), <<>>)} :
          r.err = "" /\ r.val # None /\ ~r.d.refilled

\* the first call was read_next on a new decoder over all but the last byte of
\* a valid frame (with the definition frames before it)
CutCall(c) ==
    /\ c.op = "read_next"
    /\ c.before = Front(out)
    /\ ValidFrame(out)

\* C11: read_next over a valid frame from which the last byte was removed
\* returns the error of an exhausted source, not a value and not None.
C11_TruncatedFrameFails ==
    \A i \in 1..Len(calls) : (i = 1 /\ CutCall(calls[i])) => calls[i].err = UnexpectedEof

\* the last byte was removed from a value frame that follows a definition frame
C11_Witness ==
    /\ Len(calls) = 1
    /\ CutCall(calls[1])
    /\ calls[1].err = UnexpectedEof
    /\ IsDefinitionAt(out, 1)

RECURSIVE StripZeros(_)
\* a byte string without its leading zero bytes
StripZeros(s) == IF s # <<>> /\ s[1] = 0 THEN StripZeros(Tail(s)) ELSE s

\* the unsigned encoding of the 64-bit word v: the byte v if v < 128, otherwise
\* the byte 255 - (N - 1) and the N bytes of v's minimal big-endian form
Uvarint(v) ==
    IF Len(StripZeros(v)) = 0 THEN <<0>>
    ELSE IF Len(StripZeros(v)) = 1 /\ v[8] < 128 THEN <<v[8]>>
    ELSE <<255 - (Len(StripZeros(v)) - 1)>> \o StripZeros(v)

\* the call was op and it wrote the number x
WroteNumber(c, op, x) == c.op = op /\ sent[1].value.v = x

\* C12: Encoder::write_uint(v) writes the single byte v when v < 128, otherwise
\* the byte 255 - (N - 1) and the N-byte minimal big-endian form of v
\* (1 <= N <= 8, first value byte not zero); 0, 127, 128 and 256 give
\* [0x00], [0x7F], [0xFF, 0x80] and [0xFE, 0x01, 0x00].
C12_WriteUintForm ==
    \A i \in 1..Len(calls) :
        calls[i].op = "write_uint"
            => /\ out = Uvarint(sent[1].value.v)
               /\ Len(out) > 1 => (out[2] # 0 /\ Len(out) \in 2..9 /\ out[1] = 257 - Len(out))
               /\ WroteNumber(calls[i], "write_uint", U64(0)) => out = <<0>>
               /\ WroteNumber(calls[i], "write_uint", U64(127)) => out = <<127>>
               /\ WroteNumber(calls[i], "write_uint", U64(128)) => out = <<255, 128>>
               /\ WroteNumber(calls[i], "write_uint", U64(256)) => out = <<254, 1, 0>>

\* write_uint wrote 256 as a count byte and two value bytes
C12_Witness ==
    /\ Len(calls) = 1
    /\ WroteNumber(calls[1], "write_uint", U64(256))
    /\ out = <<254, 1, 0>>

\* C13 as stated: Encoder::write_int writes [0x01] for -1, [0x02] for 1 and
\* [0xFE, 0x00, 0xFF] for -128.
C13_WriteIntAsStated ==
    \A i \in 1..Len(calls) :
        /\ WroteNumber(calls[i], "write_int", I64(-1)) => out = <<1>>
        /\ WroteNumber(calls[i], "write_int", I64(1)) => out = <<2>>
        /\ WroteNumber(calls[i], "write_int", I64(-128)) => out = <<254, 0, 255>>

\* C13: Encoder::write_int writes [0x01] for -1, [0x02] for 1 and, for -128,
\* the unsigned encoding of 255 in minimal form, [0xFF, 0xFF].
C13_WriteIntExamples ==
    \A i \in 1..Len(calls) :
        /\ WroteNumber(calls[i], "write_int", I64(-1)) => out = <<1>>
        /\ WroteNumber(calls[i], "write_int", I64(1)) => out = <<2>>
        /\ WroteNumber(calls[i], "write_int", I64(-128)) => out = <<255, 255>>

\* write_int wrote -128
C13_Witness ==
    /\ Len(calls) = 1
    /\ WroteNumber(calls[1], "write_int", I64(-128))
    /\ out = <<255, 255>>

\* C15: every path that writes the integer 42 as an interface value
\* (GobWriter::encode_interface_value, encode_as_interface) writes the name
\* "int" or "int64", the id 2, the value length 1 and the single byte of the
\* unsigned encoding of zigzag(42) = 84.
C15_InterfaceInt42 ==
    \A i \in 1..Len(calls) :
        ( /\ calls[i].op \in {"encode_interface_value", "encode_as_interface"}
          /\ sent[1].value.t = "Int"
          /\ sent[1].value.v = I64(42) )
            => \/ out = write_string(str_int) \o <<4, 1, 84>>
               \/ out = write_string(str_int64) \o <<4, 1, 84>>

\* a FieldType of a StructType body: the name and the id of a field
FieldType(name, id) ==
    <<1>> \o write_string(name) \o <<1>> \o write_int(I64(id)) \o <<0>>

\* C14: a new GobWriter that encodes a struct of the fields A = Int 7 and
\* B = String "hi" writes exactly two frames: the definition frame of id -65,
\* whose StructType body lists the fields ("A", 2), ("B", 6) in that order,
\* then the value frame of id 65 and body
\* [uvarint 1, int 7, uvarint 1, string "hi", uvarint 0].
C14_StructFrames ==
    (Len(sent) = 1 /\ cmp(sent[1].value, StructAB) = 0)
        => /\ sent[1].err = ""
           /\ Len(log) = 2
           /\ FramesFrom(out, 1) = <<log[1].bytes, log[2].bytes>>
           /\ log[1].bytes = write_int(I64(-65))
                  \o <<3, 1>> \o <<1>> \o write_string(sent[1].value.n)
                              \o <<1>> \o write_int(I64(65)) \o <<0>>
                  \o <<1, 2>> \o FieldType(str_A, 2) \o FieldType(str_B, 6)
                  \o <<0, 0>>
           /\ log[2].bytes = write_int(I64(65))
                  \o <<1>> \o write_int(I64(7)) \o <<1>> \o write_string(str_hi) \o <<0>>

\* the struct was encoded and its two frames were written
C14_Witness ==
    /\ Len(sent) = 1
    /\ cmp(sent[1].value, StructAB) = 0
    /\ Len(log) = 2
    /\ log[1].kind = "def" /\ log[1].id = 65
    /\ log[2].kind = "value" /\ log[2].id = 65

\* the call was the first on a new decoder over a Bool or Uint frame whose
\* value, read by read_uint, begins with a count byte of n value bytes
CountByteCall(c, n) ==
    /\ c.stash0 = <<>>
    /\ c.known = DOMAIN NewTypes
    /\ c.op \in {"read_next", "u64"}
    /\ Len(c.before) >= 3
    /\ c.before[1] \in 2..127
    /\ c.before[2] \in {2, 6}
    /\ c.before[3] = 256 - n

\* C16: read_uint on a count byte that denotes N value bytes returns an
\* invalid-data error, and does not panic, when N > 8 and also when fewer than
\* N bytes are available.
C16_BadCountIsInvalidData ==
    \A i \in 1..Len(calls) :
        \A n \in 1..128 :
            (CountByteCall(calls[i], n) /\ (n > 8 \/ Len(calls[i].before) < 3 + n))
                => calls[i].err \in InvalidData

\* the same for N > 8 alone
C16_WideCountIsInvalidData ==
    \A i \in 1..Len(calls) :
        \A n \in 9..128 : CountByteCall(calls[i], n) => calls[i].err \in InvalidData

\* the registry as the i-th call left it
TypesAfter(i) == IF i = Len(calls) THEN types ELSE calls[i + 1].types0

\* C17: a definition for an identifier that is already bound to a different
\* schema fails and the registry keeps the earlier schema: no call of the
\* decoder changes the schema that an identifier was bound to before it.
C17_RedefinitionFails ==
    \A i \in 1..Len(calls) :
        \A id \in calls[i].known :
            /\ id \in DOMAIN TypesAfter(i)
            /\ TypesAfter(i)[id] = calls[i].types0[id]

\* C18: every schema taken from the stream is registered under an identifier
\* of 65 or more, and the identifiers 1..8 keep their predefined schemas.
C18_ReservedIdsKept ==
    \A id \in DOMAIN types :
        IF id \in DOMAIN NewTypes THEN types[id] = NewTypes[id] ELSE id >= 65

\* the identifiers the writer has assigned
Assigned == {type_ids[k] : k \in DOMAIN type_ids}

\* the definition frames written for the identifier d
Announcements(d) == {i \in 1..Len(log) : log[i].kind = "def" /\ log[i].id = d}

\* the identifiers assigned are 65, 66, ... without a gap, one to each type,
\* and each has exactly one definition frame; these frames are in that order
SequentialIds ==
    /\ next_id = 65 + Cardinality(DOMAIN type_ids)
    /\ Assigned = 65..(next_id - 1)
    /\ \A d \in Assigned : Cardinality(Announcements(d)) = 1
    /\ \A i \in 1..Len(log) : log[i].kind = "def" => log[i].id \in Assigned
    /\ \A i, j \in 1..Len(log) :
          (i < j /\ log[i].kind = "def" /\ log[j].kind = "def") => log[i].id < log[j].id

\* C19: over any sequence of GobWriter::encode calls the identifiers assigned
\* to composite types are 65, 66, 67, ... in the order of assignment: each is
\* at least 65, none is assigned to two types, next_id never decreases, and
\* each assigned identifier d has exactly one definition frame, of id -d.
C19_IdsSequential == [](SequentialIds) /\ [][next_id' >= next_id]_vars

\* two composite types were assigned 65 and 66 and both were announced
C19_Witness ==
    /\ next_id = 67
    /\ Assigned = {65, 66}
    /\ Cardinality(Announcements(65)) = 1
    /\ Cardinality(Announcements(66)) = 1

\* the first call was decode_into::<Rec> on a new decoder over a frame whose
\* struct body is the field delta delta, the byte of a u64 and the end
RecCall(c, delta) ==
    /\ c.op = "Rec"
    /\ c.before \in RecFrames
    /\ c.before[3] = delta

\* C20: a struct body whose running field index (-1 plus the deltas read)
\* falls outside 0..N-1 for the N fields of the struct fails with invalid-data,
\* in decode_value and in the generated struct-delta decode of a record.
C20_BadFieldIndexFails ==
    \A i \in 1..Len(calls) :
        /\ (calls[i].op = "read_next" /\ calls[i].before = BadIndexStream)
              => calls[i].err \in InvalidData
        /\ \A delta \in 1..127 :
              (RecCall(calls[i], delta) /\ delta - 1 \notin 0..(Len(RecFields) - 1))
                  => calls[i].err \in InvalidData

\* decode_value alone does fail with invalid-data on such a body
DecodeValueBadIndex ==
    \A i \in 1..Len(calls) :
        (calls[i].op = "read_next" /\ calls[i].before = BadIndexStream)
            => calls[i].err = UnknownFieldIndex

\* the first call was decode_into::<String> or ::<Vec<u8>> on a new decoder
\* over a frame (its length and its id one byte each, the id not negative)
\* whose body begins with a length greater than the rest of the frame
LongLengthCall(c) ==
    /\ c.op \in {"String", "Vec<u8>"}
    /\ c.stash0 = <<>>
    /\ c.known = DOMAIN NewTypes
    /\ Len(c.before) >= 3
    /\ c.before[1] \in 2..127
    /\ c.before[2] < 128 /\ c.before[2] % 2 = 0
    /\ c.before[3] \in 1..127
    /\ c.before[3] > c.before[1] - 2

\* C21: when the decoded length of a byte slice or string exceeds the bytes
\* that remain in the current message, the decoder fails with invalid-data
\* before it reads that many bytes.
C21_CountOverBudgetFails ==
    \A i \in 1..Len(calls) :
        LongLengthCall(calls[i])
            => /\ calls[i].err \in InvalidData
               /\ ~calls[i].refilled
               /\ Len(calls[i].after) = Len(calls[i].before) - 3

\* the first call was read_next or decode_into::<Value> on a new decoder over
\* the frame of the k-th interface value
IfaceCall(c, k, marker) ==
    /\ c.op \in {"read_next", "Value"}
    /\ c.stash0 = <<>>
    /\ c.known = DOMAIN NewTypes
    /\ c.before = IfaceFrame(IfaceCases[k], marker)

\* the call returned the value v
Returned(c, v) ==
    /\ c.err = ""
    /\ c.val # <<>>
    /\ cmp(IF c.op = "read_next" THEN c.val[1] ELSE c.val, v) = 0

\* C22: decode_interface accepts an optional leading zero byte: an interface
\* value decodes to the same value with the zero byte before its payload and
\* without it, also when the first byte of the payload is itself zero (Int 0,
\* Bool false, the empty string).
C22_OptionalZeroAccepted ==
    \A i \in 1..Len(calls) :
        \A k \in 1..4, marker \in BOOLEAN :
            IfaceCall(calls[i], k, marker) => Returned(calls[i], IfaceCases[k].value)

\* with the zero byte before the payload every one of these values is decoded
ZeroByteSkipped ==
    \A i \in 1..Len(calls) :
        \A k \in 1..4 :
            IfaceCall(calls[i], k, TRUE) => Returned(calls[i], IfaceCases[k].value)

\* C26: decode_interface decodes the payload with the schema registered for
\* the transmitted identifier, whatever the transmitted name is: the payload of
\* id 3 is read as an unsigned integer, and a name that disagrees with the id
\* does not change how the payload is read.
C26_SchemaOfIdDecodes ==
    \A i \in 1..Len(calls) :
        \A k \in 5..6, marker \in BOOLEAN :
            IfaceCall(calls[i], k, marker) => Returned(calls[i], IfaceCases[k].value)

\* the stash as the i-th call left it
StashAfter(i) == IF i = Len(calls) THEN stash ELSE calls[i + 1].stash0

\* C27: the peek stash of the interface decoder is empty whenever read_next or
\* decode_into returns a value: no byte stashed in one message is left to be
\* read as part of the next.
C27_StashEmptyOnReturn ==
    \A i \in 1..Len(calls) : calls[i].err = "" => StashAfter(i) = <<>>

\* C24: a freshly constructed Decoder, before it reads any byte, has a
\* registered schema for each of the predefined identifiers 1 through 8.
C24_PredefinedIdsRegistered ==
    (pc = "read" /\ calls = <<>>) => \A id \in 1..8 : id \in DOMAIN types

\* the errors of a Value that is not of the type asked for
TypeMismatch == {ExpectedString, ExpectedInt, ExpectedBool}

\* the first call was decode_into::<Info> on a new decoder over stream
InfoCall(c, stream) ==
    /\ c.op = "Info"
    /\ c.stash0 = <<>>
    /\ c.known = DOMAIN NewTypes
    /\ c.before = stream

\* C23: in the map decode of a bound record, a wire value for a known key
\* that cannot be converted to the type of the field (an Int arriving for a
\* String field) makes decode fail with type-mismatch; no record is returned.
C23_MismatchFails ==
    \A i \in 1..Len(calls) :
        InfoCall(calls[i], MapFrame(str_uname, VInt(I64(5))))
            => calls[i].err \in TypeMismatch

\* a value of the type of the field, and a Uint for an i64 field, are taken
MapValuesTaken ==
    \A i \in 1..Len(calls) :
        /\ InfoCall(calls[i], MapFrame(str_uname, VString(<<104, 105>>)))
              => Returned(calls[i], VStruct(str_Info, FieldInsert(Info_default, str_uname, VString(<<104, 105>>))))
        /\ InfoCall(calls[i], MapFrame(str_uid, VUint(U64(300))))
              => Returned(calls[i], VStruct(str_Info, FieldInsert(Info_default, str_uid, VInt(I64(300)))))

\* C28: the bytes that the generated struct-delta encode of a record writes
\* are accepted by its generated decode, which returns the record: the
\* field index that the first delta reaches from -1 is the index the decoder
\* maps to the first field.
C28_StructDeltaRoundTrip ==
    \A i \in 1..Len(calls) :
        (calls[i].op = "Rec" /\ calls[i].stash0 = <<>>
            /\ calls[i].before = RecordFrame(0, Rec_encode(RecOne)))
            => Returned(calls[i], RecOne)

\* C29: each key that the generated map encode writes is a well-formed
\* interface value of type String (name, id 6, value length, the string
\* encoding of the name of the field), so the generated decode reads the
\* keys back and returns the record.
C29_MapModeRoundTrip ==
    /\ map_encode_fields(InfoOne.v)
          = encode_as_interface(VString(str_uid)) \o encode_as_interface(InfoOne.v[1][2])
            \o encode_as_interface(VString(str_uname)) \o encode_as_interface(InfoOne.v[2][2])
    /\ \A i \in 1..Len(calls) :
          InfoCall(calls[i], RecordFrame(64, Info_encode(InfoOne)))
              => Returned(calls[i], InfoOne)

\* the decode of what the generated map encode wrote
C29_Decoded ==
    \A i \in 1..Len(calls) :
        InfoCall(calls[i], RecordFrame(64, Info_encode(InfoOne)))
            => Returned(calls[i], InfoOne)

\* the place of the variant of v in the order of the variants
VariantTag(v) ==
    CHOOSE k \in 1..10 :
        <<"Nil", "Bool", "Int", "Uint", "Float", "String", "Bytes", "Array", "Map", "Struct">>[k] = v.t

\* C25: the ordering of dynamic values is a total order consistent with
\* equality: cmp(a, b) is Equal exactly when a == b, cmp(a, b) is the reverse
\* of cmp(b, a), the order is transitive, values of different variants are
\* ordered by their variant tags, and floats are equated and ordered by their
\* bit patterns.
C25_TotalOrder ==
    \A i \in 1..Len(calls) :
        calls[i].op = "cmp" =>
            /\ (calls[i].ab = 0) <=> calls[i].eq
            /\ calls[i].ab = -calls[i].ba
            /\ (calls[i].ab <= 0 /\ calls[i].bc <= 0) => calls[i].ac <= 0
            /\ (calls[i].ab < 0 /\ calls[i].bc <= 0) => calls[i].ac < 0
            /\ (calls[i].ab <= 0 /\ calls[i].bc < 0) => calls[i].ac < 0
            /\ VariantTag(sent[1]) # VariantTag(sent[2])
                  => calls[i].ab = Ordering(VariantTag(sent[1]) - VariantTag(sent[2]))
            /\ (sent[1].t = "Float" /\ sent[2].t = "Float")
                  => /\ calls[i].eq <=> (sent[1].v = sent[2].v)
                     /\ calls[i].ab = CmpBytes(sent[1].v, sent[2].v)

\* a NaN was compared with itself and found Equal and equal, and 0.0 was
\* found different from -0.0
C25_Witness ==
    /\ Len(calls) = 1 /\ calls[1].op = "cmp"
    /\ sent[1].t = "Float" /\ sent[1].v = FloatBits[4]
    /\ sent[2].t = "Float" /\ sent[2].v = FloatBits[4]
    /\ sent[3].t = "Struct"
    /\ calls[1].ab = 0 /\ calls[1].eq /\ calls[1].bc = -1

\* C30: the conversion of a Value to i64 never changes the numeric value:
\* for a Value::Uint(u) it returns the i64 that is mathematically equal to u,
\* or it fails, also for u >= 2^63.
C30_UintToIntKeepsValue ==
    \A i \in 1..Len(calls) :
        (calls[i].op = "i64" /\ sent[1].t = "Uint")
            => \/ calls[i].err # ""
               \/ /\ calls[i].val.v = sent[1].v
                  /\ ~IsNeg(calls[i].val.v)

\* below 2^63 the conversion does keep the value
SmallUintKept ==
    \A i \in 1..Len(calls) :
        (calls[i].op = "i64" /\ sent[1].t = "Uint" /\ sent[1].v[1] < 128)
            => /\ calls[i].err = ""
               /\ calls[i].val.v = sent[1].v
               /\ ~IsNeg(calls[i].val.v)
=============================================================================
